---- MODULE Spec2Model ----
(***************************************************************************)
(* Configuration resolution of the image builders: decode, default,        *)
(* validate, aggregate, and the derivation of block-device mappings.       *)
(*                                                                         *)
(* Every handler of the source is one action.  A handler is synchronous    *)
(* and touches only the configuration it is given, so the state is the     *)
(* last call: which handler ran (op), what it was given (arg) and what it  *)
(* left behind (ret).                                                      *)
(*                                                                         *)
(* Go values: a pointer or an optional field is a sequence of length 0     *)
(* (nil / unset) or 1 (set); a slice is a sequence; an error list is a     *)
(* sequence of messages.                                                   *)
(***************************************************************************)
EXTENDS Integers, Sequences, FiniteSets, TLC

VARIABLES op, arg, ret

vars == <<op, arg, ret>>

\* The state before any handler has run.
Init ==
    /\ op = "none"
    /\ arg = [none |-> TRUE]
    /\ ret = [none |-> TRUE]

\* A configuration is resolved once: a handler runs on a configuration no
\* handler has run on yet.
Idle == op = "none"

----------------------------------------------------------------------------
(* Bounds *)

\* Longest device list given to buildBlockDevices, and the largest number of
\* devices (AMI and launch lists together) given to BlockDevices.Prepare.
MaxDevices == 2

\* The largest number of fields in which a configuration given to
\* RunConfig.Prepare or to the cloudstack or virtualbox-ovf NewConfig differs
\* from the valid configuration the model starts from.
MaxVaried == 3

----------------------------------------------------------------------------
(* Go helpers *)

Nil == <<>>

Ptr(v) == <<v>>

IsNil(p) == Len(p) = 0

IsSet(p) == Len(p) = 1

Deref(p) == p[1]

\* strings.HasPrefix(s, "ephemeral") over the virtual names of the model.
EphemeralNames == {"ephemeral0", "ephemeral1"}

HasPrefixEphemeral(s) == s \in EphemeralNames

----------------------------------------------------------------------------
(* builder/amazon/common: block devices *)

BoolOpts == {Nil, Ptr(TRUE), Ptr(FALSE)}

\* type BlockDevice: every field over a small domain.
BlockDeviceDomain ==
    [DeleteOnTermination : BOOLEAN,
     DeviceName          : {"", "/dev/sdh"},
     Encrypted           : BoolOpts,
     IOPS                : {0, 1000},
     NoDevice            : BOOLEAN,
     SnapshotId          : {"", "snap-1"},
     VirtualName         : {"", "ephemeral0", "vdisk"},
     VolumeType          : {"", "gp2", "io1"},
     VolumeSize          : {-1, 0, 8},
     KmsKeyId            : {"", "key-1"},
     OmitFromArtifact    : {FALSE}]

\* One device of each branch of buildBlockDevices, for the longer lists.
BranchDevices ==
    {d \in BlockDeviceDomain :
        /\ d.DeviceName = "/dev/sdh"
        /\ d.DeleteOnTermination
        /\ d.IOPS = 1000
        /\ d.Encrypted = Nil
        /\ d.KmsKeyId = ""
        /\ d.SnapshotId = ""
        /\ d.VolumeSize = 8
        /\ d.VolumeType = "io1"}

\* A plausible slip in the Ebs part: a size of zero is sent as a size.
EbsBlockDevice_SizeNotNegative(blockDevice) ==
    [DeleteOnTermination |-> Ptr(blockDevice.DeleteOnTermination),
     VolumeType |-> IF blockDevice.VolumeType # ""
                    THEN Ptr(blockDevice.VolumeType) ELSE Nil,
     VolumeSize |-> IF blockDevice.VolumeSize >= 0
                    THEN Ptr(blockDevice.VolumeSize) ELSE Nil,
     Iops       |-> IF blockDevice.VolumeType = "io1"
                    THEN Ptr(blockDevice.IOPS) ELSE Nil,
     SnapshotId |-> IF blockDevice.SnapshotId # ""
                    THEN Ptr(blockDevice.SnapshotId) ELSE Nil,
     Encrypted  |-> blockDevice.Encrypted,
     KmsKeyId   |-> IF blockDevice.KmsKeyId # ""
                    THEN Ptr(blockDevice.KmsKeyId) ELSE Nil]

\* The else branch of the loop of buildBlockDevices: the ec2.EbsBlockDevice.
EbsBlockDevice(blockDevice) ==
    [DeleteOnTermination |-> Ptr(blockDevice.DeleteOnTermination),
     VolumeType |-> IF blockDevice.VolumeType # ""
                    THEN Ptr(blockDevice.VolumeType) ELSE Nil,
     VolumeSize |-> IF blockDevice.VolumeSize > 0
                    THEN Ptr(blockDevice.VolumeSize) ELSE Nil,
     Iops       |-> IF blockDevice.VolumeType = "io1"
                    THEN Ptr(blockDevice.IOPS) ELSE Nil,
     SnapshotId |-> IF blockDevice.SnapshotId # ""
                    THEN Ptr(blockDevice.SnapshotId) ELSE Nil,
     Encrypted  |-> blockDevice.Encrypted,
     KmsKeyId   |-> IF blockDevice.KmsKeyId # ""
                    THEN Ptr(blockDevice.KmsKeyId) ELSE Nil]

\* The mapping with nothing but the device name on it.
NewMapping(blockDevice) ==
    [DeviceName  |-> Ptr(blockDevice.DeviceName),
     NoDevice    |-> Nil,
     VirtualName |-> Nil,
     Ebs         |-> Nil]

\* A plausible slip in the branch order: virtual_name is looked at before
\* no_device.
buildMapping_VirtualNameFirst(blockDevice) ==
    IF blockDevice.VirtualName # ""
    THEN IF HasPrefixEphemeral(blockDevice.VirtualName)
         THEN [NewMapping(blockDevice) EXCEPT
                  !.VirtualName = Ptr(blockDevice.VirtualName)]
         ELSE NewMapping(blockDevice)
    ELSE IF blockDevice.NoDevice
    THEN [NewMapping(blockDevice) EXCEPT !.NoDevice = Ptr("")]
    ELSE [NewMapping(blockDevice) EXCEPT !.Ebs = Ptr(EbsBlockDevice(blockDevice))]

\* The body of the loop of buildBlockDevices: the mapping of one device.
buildMapping(blockDevice) ==
    IF blockDevice.NoDevice
    THEN [NewMapping(blockDevice) EXCEPT !.NoDevice = Ptr("")]
    ELSE IF blockDevice.VirtualName # ""
    THEN IF HasPrefixEphemeral(blockDevice.VirtualName)
         THEN [NewMapping(blockDevice) EXCEPT
                  !.VirtualName = Ptr(blockDevice.VirtualName)]
         ELSE NewMapping(blockDevice)
    ELSE [NewMapping(blockDevice) EXCEPT !.Ebs = Ptr(EbsBlockDevice(blockDevice))]

\* func buildBlockDevices(b []BlockDevice) []*ec2.BlockDeviceMapping
buildBlockDevices(b) == [i \in 1..Len(b) |-> buildMapping(b[i])]

\* A plausible slip in BlockDevice.Prepare: an unset encrypted counts as
\* false.
BlockDevice_Prepare_UnsetIsFalse(b) ==
    IF b.DeviceName = ""
    THEN Ptr("The device_name must be specified for every device in the block device mapping.")
    ELSE IF b.KmsKeyId # "" /\ (IsNil(b.Encrypted) \/ Deref(b.Encrypted) = FALSE)
    THEN Ptr("The device " \o b.DeviceName \o
             ", must also have encrypted: true when setting a kms_key_id.")
    ELSE Nil

\* func (b *BlockDevice) Prepare: nil or the first violated rule (the
\* messages without their backquotes).
BlockDevice_Prepare(b) ==
    IF b.DeviceName = ""
    THEN Ptr("The device_name must be specified for every device in the block device mapping.")
    ELSE IF b.KmsKeyId # "" /\ IsSet(b.Encrypted) /\ Deref(b.Encrypted) = FALSE
    THEN Ptr("The device " \o b.DeviceName \o
             ", must also have encrypted: true when setting a kms_key_id.")
    ELSE Nil

\* One loop of BlockDevices.Prepare: the errors of the devices ds, prefixed.
RECURSIVE PrepareMappings(_, _, _)
PrepareMappings(prefix, ds, i) ==
    IF i > Len(ds) THEN <<>>
    ELSE LET err == BlockDevice_Prepare(ds[i])
         IN  (IF IsSet(err) THEN <<prefix \o Deref(err)>> ELSE <<>>)
             \o PrepareMappings(prefix, ds, i + 1)

\* func (b *BlockDevices) Prepare(ctx) (errs []error)
BlockDevices_Prepare(b) ==
    PrepareMappings("AMIMapping: ", b.AMIMappings, 1)
        \o PrepareMappings("LaunchMapping: ", b.LaunchMappings, 1)

\* Device lists: every single device, and the longer lists over BranchDevices.
SeqsOver(S, lo, hi) == UNION {[1..n -> S] : n \in lo..hi}

BuildInputs == SeqsOver(BlockDeviceDomain, 0, 1) \cup SeqsOver(BranchDevices, 2, MaxDevices)

\* The devices BlockDevices.Prepare reads: device_name, kms_key_id, encrypted.
PrepareDevices ==
    {d \in BlockDeviceDomain :
        /\ ~d.DeleteOnTermination
        /\ d.IOPS = 0
        /\ ~d.NoDevice
        /\ d.SnapshotId = ""
        /\ d.VirtualName = ""
        /\ d.VolumeSize = 8
        /\ d.VolumeType = "gp2"}

PrepareInputs ==
    {b \in [AMIMappings    : SeqsOver(PrepareDevices, 0, MaxDevices),
            LaunchMappings : SeqsOver(PrepareDevices, 0, MaxDevices)] :
        Len(b.AMIMappings) + Len(b.LaunchMappings) <= MaxDevices}

\* BuildAMIDevices / BuildLaunchDevices: the derived mappings of a list.
BuildDevices ==
    /\ Idle
    /\ \E b \in BuildInputs :
        /\ op' = "buildBlockDevices"
        /\ arg' = [b |-> b]
        /\ ret' = [mappings |-> buildBlockDevices(b)]

\* BlockDevices.Prepare on the AMI and launch lists.
PrepareBlockDevices ==
    /\ Idle
    /\ \E b \in PrepareInputs :
        /\ op' = "BlockDevices.Prepare"
        /\ arg' = [b |-> b]
        /\ ret' = [errs |-> BlockDevices_Prepare(b)]

NextBlockDevices == BuildDevices \/ PrepareBlockDevices

SpecBlockDevices == Init /\ [][NextBlockDevices]_vars

----------------------------------------------------------------------------
(* time.Duration and time.ParseDuration *)

\* A time.Duration is a count of nanoseconds; it is kept here as whole
\* seconds and the nanoseconds beyond them, with its sign.
NanosPerSecond == 1000000000

Duration(neg, sec, nsec) == [neg |-> neg, s |-> sec, ns |-> nsec]

ZeroDuration == Duration(FALSE, 0, 0)

Seconds(n) == Duration(FALSE, n, 0)

Minutes(n) == Duration(FALSE, n * 60, 0)

\* unitMap of package time, each unit as a Duration.
unitMap ==
    [ns |-> Duration(FALSE, 0, 1),
     us |-> Duration(FALSE, 0, 1000),
     ms |-> Duration(FALSE, 0, 1000000),
     s  |-> Duration(FALSE, 1, 0),
     m  |-> Duration(FALSE, 60, 0),
     h  |-> Duration(FALSE, 3600, 0)]

\* v * unit and d + e, of non-negative durations.
DurationTimes(v, unit) ==
    LET nanos == v * unit.ns
    IN  Duration(FALSE, v * unit.s + (nanos \div NanosPerSecond),
                 nanos % NanosPerSecond)

DurationPlus(d, e) ==
    LET nanos == d.ns + e.ns
    IN  Duration(FALSE, d.s + e.s + (nanos \div NanosPerSecond),
                 nanos % NanosPerSecond)

\* -Duration(d): zero has no sign.
DurationNegate(d) == IF d = ZeroDuration THEN d ELSE [d EXCEPT !.neg = TRUE]

\* A string that is parsed is a sequence of its characters.
DigitValue ==
    [c \in {"0", "1", "2", "3", "4", "5", "6", "7", "8", "9"} |->
        CASE c = "0" -> 0 [] c = "1" -> 1 [] c = "2" -> 2 [] c = "3" -> 3
          [] c = "4" -> 4 [] c = "5" -> 5 [] c = "6" -> 6 [] c = "7" -> 7
          [] c = "8" -> 8 [] c = "9" -> 9]

IsDigit(c) == c \in DOMAIN DigitValue

\* The string of a sequence of characters.
RECURSIVE Cat(_)
Cat(cs) == IF cs = <<>> THEN "" ELSE Head(cs) \o Cat(Tail(cs))

\* leadingInt: the number of leading digits of s, and their value.
RECURSIVE LeadingDigits(_)
LeadingDigits(cs) ==
    IF cs # <<>> /\ IsDigit(Head(cs)) THEN 1 + LeadingDigits(Tail(cs)) ELSE 0

RECURSIVE DigitsValue(_, _)
DigitsValue(cs, acc) ==
    IF cs = <<>> THEN acc
    ELSE DigitsValue(Tail(cs), acc * 10 + DigitValue[Head(cs)])

\* The length of the unit at the head of s: up to the next digit or period.
RECURSIVE UnitLength(_)
UnitLength(cs) ==
    IF cs # <<>> /\ ~IsDigit(Head(cs)) /\ Head(cs) # "."
    THEN 1 + UnitLength(Tail(cs)) ELSE 0

Drop(cs, n) == SubSeq(cs, n + 1, Len(cs))

ParseOk(d) == [d |-> d, err |-> Nil]

ParseError(msg) == [d |-> ZeroDuration, err |-> Ptr(msg)]

\* The loop of ParseDuration over the groups <digits><unit> of s, d being the
\* sum so far.  The raw values of the model carry no decimal point.
RECURSIVE ParseGroups(_, _, _)
ParseGroups(cs, d, orig) ==
    IF cs = <<>> THEN ParseOk(d)
    ELSE IF ~IsDigit(Head(cs))
    THEN ParseError("time: invalid duration " \o Cat(orig))
    ELSE LET n    == LeadingDigits(cs)
             v    == DigitsValue(SubSeq(cs, 1, n), 0)
             rest == Drop(cs, n)
             i    == UnitLength(rest)
             u    == Cat(SubSeq(rest, 1, i))
         IN  IF i = 0
             THEN ParseError("time: missing unit in duration " \o Cat(orig))
             ELSE IF u \notin DOMAIN unitMap
             THEN ParseError("time: unknown unit " \o u \o " in duration " \o Cat(orig))
             ELSE ParseGroups(Drop(rest, i),
                              DurationPlus(d, DurationTimes(v, unitMap[u])), orig)

\* func ParseDuration(s string) (Duration, error)
ParseDuration(orig) ==
    LET signed == orig # <<>> /\ Head(orig) \in {"-", "+"}
        neg    == signed /\ Head(orig) = "-"
        cs     == IF signed THEN Tail(orig) ELSE orig
    IN  IF cs = <<"0">> THEN ParseOk(ZeroDuration)
        ELSE IF cs = <<>>
        THEN ParseError("time: invalid duration " \o Cat(orig))
        ELSE LET r == ParseGroups(cs, ZeroDuration, orig)
             IN  IF IsSet(r.err) \/ ~neg THEN r
                 ELSE ParseOk(DurationNegate(r.d))

\* The raw duration strings of the model: omitted, the two defaults, other
\* well-formed values, and values ParseDuration rejects.
RawDurations ==
    {<<>>,
     <<"5", "m">>, <<"2", "0", "s">>, <<"3", "0", "0", "s">>,
     <<"1", "h", "3", "0", "m">>, <<"5", "0", "0", "m", "s">>,
     <<"-", "5", "m">>, <<"0">>, <<"0", "s">>,
     <<"9", "0">>, <<"5", "x">>, <<"m">>, <<"-">>, <<"5", "m", "3">>}

----------------------------------------------------------------------------
(* builder/vmware/common: ShutdownConfig *)

ShutdownConfigDomain ==
    [ShutdownCommand    : {"", "shutdown -P now"},
     RawShutdownTimeout : RawDurations,
     ShutdownTimeout    : {ZeroDuration}]

\* A plausible slip: the raw default is stored but the parse is of the value
\* as given.
ShutdownConfig_Prepare_ParseGiven(c) ==
    LET raw == IF c.RawShutdownTimeout = <<>> THEN <<"5", "m">>
               ELSE c.RawShutdownTimeout
        r   == ParseDuration(c.RawShutdownTimeout)
    IN  [c    |-> [c EXCEPT !.RawShutdownTimeout = raw, !.ShutdownTimeout = r.d],
         errs |-> IF IsSet(r.err)
                  THEN <<"Failed parsing shutdown_timeout: " \o Deref(r.err)>>
                  ELSE <<>>]

\* func (c *ShutdownConfig) Prepare(ctx) []error: the configuration it
\* leaves and the errors it returns.
ShutdownConfig_Prepare(c) ==
    LET raw == IF c.RawShutdownTimeout = <<>> THEN <<"5", "m">>
               ELSE c.RawShutdownTimeout
        r   == ParseDuration(raw)
    IN  [c    |-> [c EXCEPT !.RawShutdownTimeout = raw, !.ShutdownTimeout = r.d],
         errs |-> IF IsSet(r.err)
                  THEN <<"Failed parsing shutdown_timeout: " \o Deref(r.err)>>
                  ELSE <<>>]

PrepareShutdownConfig ==
    /\ Idle
    /\ \E c \in ShutdownConfigDomain :
        /\ op' = "ShutdownConfig.Prepare"
        /\ arg' = [c |-> c]
        /\ ret' = ShutdownConfig_Prepare(c)

----------------------------------------------------------------------------
(* packer.MultiError: the aggregate of a resolution *)

\* packer.MultiErrorAppend(err, errs...): the aggregate with errs appended,
\* a nil aggregate being made first.  The aggregate is a pointer (Nil or
\* Ptr of its Errors).
MultiErrorAppend(err, errs) ==
    Ptr([Errors |-> (IF IsNil(err) THEN <<>> ELSE Deref(err).Errors) \o errs])

\* The statement "packer.MultiErrorAppend(errs, e)" whose result is not
\* assigned: the append is made on the aggregate errs points to, so a non-nil
\* errs sees it; a nil errs stays nil.
MultiErrorAppendInPlace(err, errs) ==
    IF IsNil(err) THEN err ELSE MultiErrorAppend(err, errs)

\* The accumulation of one resolution: the aggregate so far, and the steps
\* run so far, each with the errors it returned.
NoErrors == [errs |-> Nil, steps |-> <<>>]

Ran(acc, step, es) == Append(acc.steps, [step |-> step, errs |-> es])

\* A plausible slip in the accumulation: a step is skipped once the aggregate
\* holds an error.
Collect_FailFast(acc, step, es) ==
    IF IsSet(acc.errs) /\ Len(Deref(acc.errs).Errors) > 0 THEN acc
    ELSE [errs |-> MultiErrorAppend(acc.errs, es), steps |-> Ran(acc, step, es)]

\* errs = packer.MultiErrorAppend(errs, <the errors of a step>...)
Collect(acc, step, es) ==
    [errs |-> MultiErrorAppend(acc.errs, es), steps |-> Ran(acc, step, es)]

\* A plausible slip in a rule: it is not evaluated once the aggregate holds
\* an error.
Check_SkipAfterError(acc, step, violated, msg) ==
    IF IsSet(acc.errs) /\ Len(Deref(acc.errs).Errors) > 0 THEN acc
    ELSE IF violated
    THEN [errs |-> MultiErrorAppend(acc.errs, <<msg>>), steps |-> Ran(acc, step, <<msg>>)]
    ELSE [acc EXCEPT !.steps = Ran(acc, step, <<>>)]

\* if <violated> { errs = packer.MultiErrorAppend(errs, <error>) }
Check(acc, step, violated, msg) ==
    IF violated THEN Collect(acc, step, <<msg>>)
    ELSE [acc EXCEPT !.steps = Ran(acc, step, <<>>)]

\* if <violated> { packer.MultiErrorAppend(errs, <error>) }
CheckInPlace(acc, step, violated, msg) ==
    IF violated
    THEN [errs  |-> MultiErrorAppendInPlace(acc.errs, <<msg>>),
          steps |-> Ran(acc, step, <<msg>>)]
    ELSE [acc EXCEPT !.steps = Ran(acc, step, <<>>)]

\* A plausible slip in the last test of NewConfig: a non-nil aggregate fails
\* the resolution even when it holds no error.
Resolved_NonNilFails(c, acc) ==
    IF IsSet(acc.errs)
    THEN [c |-> Nil, err |-> acc.errs, steps |-> acc.steps, decoded |-> TRUE]
    ELSE [c |-> Ptr(c), err |-> Nil, steps |-> acc.steps, decoded |-> TRUE]

\* if errs != nil && len(errs.Errors) > 0 { return nil, errs }; return c, nil
Resolved(c, acc) ==
    IF IsSet(acc.errs) /\ Len(Deref(acc.errs).Errors) > 0
    THEN [c |-> Nil, err |-> acc.errs, steps |-> acc.steps, decoded |-> TRUE]
    ELSE [c |-> Ptr(c), err |-> Nil, steps |-> acc.steps, decoded |-> TRUE]

\* err := config.Decode(...); if err != nil { return nil, err }
DecodeFailed(err) ==
    [c |-> Nil, err |-> Ptr([Errors |-> <<err>>]), steps |-> <<>>, decoded |-> FALSE]

\* What config.Decode returns besides the decoded configuration.
DecodeErrors == {Nil, Ptr("decode: unknown configuration key")}

\* os.Stat(path): the empty path is no file; any other path is what the
\* file system says of it.
StatOutcomes == {"ok", "ENOENT", "EACCES"}

Stat(path, outcome) == IF path = "" THEN "ENOENT" ELSE outcome

BuildNames == {"", "ubuntu"}

----------------------------------------------------------------------------
(* builder/lxc: NewConfig *)

LxcConfigDomain ==
    [PackerBuildName : BuildNames,
     ConfigFile      : {"", "lxc.conf"},
     OutputDir       : {"", "out"},
     ContainerName   : {"", "box"},
     CommandWrapper  : {"", "ssh host {{.Command}}"},
     RawInitTimeout  : RawDurations,
     Name            : {"", "ubuntu-template"},
     TargetRunlevel  : {0, 5},
     InitTimeout     : {ZeroDuration}]

\* The defaults of lxc NewConfig (config.go 56-74).
LxcDefaults(c) ==
    [c EXCEPT
        !.OutputDir      = IF @ = "" THEN "output-" \o c.PackerBuildName ELSE @,
        !.ContainerName  = IF @ = "" THEN "packer-" \o c.PackerBuildName ELSE @,
        !.TargetRunlevel = IF @ = 0 THEN 3 ELSE @,
        !.CommandWrapper = IF @ = "" THEN "{{.Command}}" ELSE @,
        !.RawInitTimeout = IF @ = <<>> THEN <<"2", "0", "s">> ELSE @]

\* func NewConfig(raws ...interface{}) (*Config, error) of package lxc, on
\* the configuration c that config.Decode produced with error decodeErr.
LxcNewConfig(c, decodeErr, stat) ==
    IF IsSet(decodeErr) THEN DecodeFailed(Deref(decodeErr))
    ELSE LET c1 == LxcDefaults(c)
             r  == ParseDuration(c1.RawInitTimeout)
             c2 == [c1 EXCEPT !.InitTimeout = r.d]
             a1 == Check(NoErrors, "init_timeout", IsSet(r.err),
                         "Failed parsing init_timeout: "
                            \o (IF IsSet(r.err) THEN Deref(r.err) ELSE ""))
             a2 == Check(a1, "config_file", Stat(c2.ConfigFile, stat) = "ENOENT",
                         "LXC Config file appears to be missing: " \o c2.ConfigFile)
         IN  Resolved(c2, a2)

NewLxcConfig ==
    /\ Idle
    /\ \E c \in LxcConfigDomain, decodeErr \in DecodeErrors, stat \in StatOutcomes :
        /\ op' = "lxc.NewConfig"
        /\ arg' = [c |-> c, decodeErr |-> decodeErr, stat |-> stat]
        /\ ret' = LxcNewConfig(c, decodeErr, stat)

NextDurations == PrepareShutdownConfig \/ NewLxcConfig

SpecDurations == Init /\ [][NextDurations]_vars

----------------------------------------------------------------------------
(* builder/lxd: NewConfig *)

LxdConfigDomain ==
    [PackerBuildName : BuildNames,
     OutputImage     : {"", "image-out"},
     ContainerName   : {"", "box"},
     CommandWrapper  : {"", "ssh host {{.Command}}"},
     Image           : {"", "ubuntu-daily:x"},
     Profile         : {"", "custom"},
     InitSleep       : {"", "10"}]

\* A plausible slip in the order of the defaults: output_image is defaulted
\* before container_name.
LxdNewConfig_OutputImageFirst(c, decodeErr) ==
    IF IsSet(decodeErr) THEN DecodeFailed(Deref(decodeErr))
    ELSE LET c1 == [c  EXCEPT !.OutputImage =
                        IF @ = "" THEN c.ContainerName ELSE @]
             c2 == [c1 EXCEPT !.ContainerName =
                        IF @ = "" THEN "packer-" \o c.PackerBuildName ELSE @]
             c3 == [c2 EXCEPT !.CommandWrapper =
                        IF @ = "" THEN "{{.Command}}" ELSE @]
             a1 == Check(NoErrors, "image", c3.Image = "",
                         "image is a required parameter for LXD. Please specify an image by alias or fingerprint. e.g. ubuntu-daily:x")
             c4 == [c3 EXCEPT !.Profile = IF @ = "" THEN "default" ELSE @]
             c5 == [c4 EXCEPT !.InitSleep = IF @ = "" THEN "3" ELSE @]
         IN  Resolved(c5, a1)

\* func NewConfig(raws ...interface{}) (*Config, error) of package lxd.
LxdNewConfig(c, decodeErr) ==
    IF IsSet(decodeErr) THEN DecodeFailed(Deref(decodeErr))
    ELSE LET c1 == [c  EXCEPT !.ContainerName =
                        IF @ = "" THEN "packer-" \o c.PackerBuildName ELSE @]
             c2 == [c1 EXCEPT !.OutputImage =
                        IF @ = "" THEN c1.ContainerName ELSE @]
             c3 == [c2 EXCEPT !.CommandWrapper =
                        IF @ = "" THEN "{{.Command}}" ELSE @]
             a1 == Check(NoErrors, "image", c3.Image = "",
                         "image is a required parameter for LXD. Please specify an image by alias or fingerprint. e.g. ubuntu-daily:x")
             c4 == [c3 EXCEPT !.Profile = IF @ = "" THEN "default" ELSE @]
             c5 == [c4 EXCEPT !.InitSleep = IF @ = "" THEN "3" ELSE @]
         IN  Resolved(c5, a1)

NewLxdConfig ==
    /\ Idle
    /\ \E c \in LxdConfigDomain, decodeErr \in DecodeErrors :
        /\ op' = "lxd.NewConfig"
        /\ arg' = [c |-> c, decodeErr |-> decodeErr]
        /\ ret' = LxdNewConfig(c, decodeErr)

----------------------------------------------------------------------------
(* Configurations near a valid one *)

\* The number of fields in which the record x differs from the record base.
Differs(x, base) == Cardinality({f \in DOMAIN base : x[f] # base[f]})

\* The fields F of the record r.
Sub(r, F) == [f \in F |-> r[f]]

----------------------------------------------------------------------------
(* builder/amazon/common: RunConfig *)

T2Micro == <<"t", "2", ".", "m", "i", "c", "r", "o">>

M4Large == <<"m", "4", ".", "l", "a", "r", "g", "e">>

T2NoDot == <<"t", "2">>

T2xDotted == <<"t", "2", "x", ".", "m", ".", "l">>

\* The fields of RunConfig that Prepare reads or writes, and what Prepare
\* takes from outside the configuration: the uuid, the errors of
\* Comm.Prepare, and what os.Stat says of user_data_file.
RunConfigValues ==
    [SSHKeyPairName          |-> {"", "kp"},
     SSHTemporaryKeyPairName |-> {"", "tmpkp"},
     SSHPrivateKeyFile       |-> {"", "id_rsa"},
     SSHPassword             |-> {"", "pw"},
     SSHInterface            |-> {"", "public_ip", "private_dns", "eth0"},
     Type                    |-> {"ssh", "winrm", ""},
     WinRMPassword           |-> {"", "wpw"},
     SSHAgentAuth            |-> BOOLEAN,
     WindowsPasswordTimeout  |-> {ZeroDuration, Minutes(5)},
     RunTags                 |-> {Nil, Ptr({}), Ptr({<<"env", "ci">>})},
     SourceAmi               |-> {"ami-1", ""},
     SourceAmiFilterOwners   |-> {<<>>, <<"self">>},
     SourceAmiFilterFilters  |-> {{}, {<<"name", "ubuntu*">>}},
     InstanceType            |-> {T2Micro, <<>>, M4Large, T2NoDot, T2xDotted},
     SpotInstanceTypes       |-> {<<>>, <<"m4.large">>},
     BlockDurationMinutes    |-> {0, 60, 90, 120, -90, -120, 1},
     SpotPrice               |-> {"", "0", "auto", "0.05"},
     SpotPriceAutoProduct    |-> {"", "Linux/UNIX"},
     SpotTags                |-> {Nil, Ptr({})},
     UserData                |-> {"", "#!/bin/sh"},
     UserDataFile            |-> {"", "user-data.sh"},
     SecurityGroupId         |-> {"", "sg-1"},
     SecurityGroupIds        |-> {<<>>, <<"sg-2">>, <<"sg-2", "sg-3">>},
     TemporarySGSourceCidrs  |-> {<<>>, <<"10.0.0.0/8">>, <<"10.0.0.0">>,
                                  <<"bogus", "10.0.0.0/8", "10.0.0.0">>},
     InstanceInitiatedShutdownBehavior |-> {"", "stop", "terminate", "hibernate"},
     EnableT2Unlimited       |-> BOOLEAN,
     Uuid                    |-> {"5ca1ab1e"},
     CommErrs                |-> {<<>>, <<"An ssh_username must be specified">>},
     StatUserDataFile        |-> StatOutcomes]

RunConfigEnvFields == {"Uuid", "CommErrs", "StatUserDataFile"}

RunConfigFields == DOMAIN RunConfigValues \ RunConfigEnvFields

\* A configuration Prepare finds nothing wrong with.
ValidRunConfig ==
    [SSHKeyPairName          |-> "",
     SSHTemporaryKeyPairName |-> "",
     SSHPrivateKeyFile       |-> "",
     SSHPassword             |-> "",
     SSHInterface            |-> "",
     Type                    |-> "ssh",
     WinRMPassword           |-> "",
     SSHAgentAuth            |-> FALSE,
     WindowsPasswordTimeout  |-> ZeroDuration,
     RunTags                 |-> Nil,
     SourceAmi               |-> "ami-1",
     SourceAmiFilterOwners   |-> <<>>,
     SourceAmiFilterFilters  |-> {},
     InstanceType            |-> T2Micro,
     SpotInstanceTypes       |-> <<>>,
     BlockDurationMinutes    |-> 0,
     SpotPrice               |-> "",
     SpotPriceAutoProduct    |-> "",
     SpotTags                |-> Nil,
     UserData                |-> "",
     UserDataFile            |-> "",
     SecurityGroupId         |-> "",
     SecurityGroupIds        |-> <<>>,
     TemporarySGSourceCidrs  |-> <<>>,
     InstanceInitiatedShutdownBehavior |-> "",
     EnableT2Unlimited       |-> FALSE,
     Uuid                    |-> "5ca1ab1e",
     CommErrs                |-> <<>>,
     StatUserDataFile        |-> "ok"]

\* func (d *AmiFilterOptions) Empty() bool
AmiFilterOptions_Empty(owners, filters) ==
    Len(owners) = 0 /\ Cardinality(filters) = 0

\* func (d *AmiFilterOptions) NoOwner() bool
AmiFilterOptions_NoOwner(owners) == Len(owners) = 0

\* a % b of Go: the remainder of the division truncated toward zero (b > 0).
GoRem(a, b) == IF a >= 0 THEN a % b ELSE -((-a) % b)

\* strings.Index(s, "."): the index from 0 of the first ".", or -1.
RECURSIVE IndexOfDot(_, _)
IndexOfDot(cs, i) ==
    IF i > Len(cs) THEN -1
    ELSE IF cs[i] = "." THEN i - 1
    ELSE IndexOfDot(cs, i + 1)

\* net.ParseCIDR over the literals of the model: its error, or nil.
ValidCIDRs == {"0.0.0.0/0", "10.0.0.0/8"}

ParseCIDRError(cidr) ==
    IF cidr \in ValidCIDRs THEN Nil ELSE Ptr("invalid CIDR address: " \o cidr)

\* reShutdownBehavior.MatchString: ^(stop|terminate)$
reShutdownBehavior(s) == s \in {"stop", "terminate"}

\* RunConfig.Prepare 256-268: the temporary key pair name, the Windows
\* password timeout and the run tags.
RunConfigDefaults(c, env) ==
    [c EXCEPT
        !.SSHTemporaryKeyPairName =
            IF c.SSHKeyPairName = "" /\ c.SSHTemporaryKeyPairName = ""
                /\ c.SSHPrivateKeyFile = "" /\ c.SSHPassword = ""
            THEN "packer_" \o env.Uuid ELSE @,
        !.WindowsPasswordTimeout = IF @ = ZeroDuration THEN Minutes(20) ELSE @,
        !.RunTags = IF IsNil(@) THEN Ptr({}) ELSE @]

\* RunConfig.Prepare 274-280
SSHInterfaceErrors(c) ==
    IF c.SSHInterface \notin {"public_ip", "private_ip", "public_dns", "private_dns", ""}
    THEN <<"Unknown interface type: " \o c.SSHInterface>> ELSE <<>>

\* RunConfig.Prepare 282-288
KeyPairErrors(c) ==
    IF c.SSHKeyPairName = "" THEN <<>>
    ELSE IF c.Type = "winrm" /\ c.WinRMPassword = "" /\ c.SSHPrivateKeyFile = ""
    THEN <<"ssh_private_key_file must be provided to retrieve the winrm password when using ssh_keypair_name.">>
    ELSE IF c.SSHPrivateKeyFile = "" /\ ~c.SSHAgentAuth
    THEN <<"ssh_private_key_file must be provided or ssh_agent_auth enabled when ssh_keypair_name is specified.">>
    ELSE <<>>

\* RunConfig.Prepare 290-296
SourceAmiErrors(c) ==
    (IF c.SourceAmi = ""
        /\ AmiFilterOptions_Empty(c.SourceAmiFilterOwners, c.SourceAmiFilterFilters)
     THEN <<"A source_ami or source_ami_filter must be specified">> ELSE <<>>)
    \o (IF c.SourceAmi = "" /\ AmiFilterOptions_NoOwner(c.SourceAmiFilterOwners)
        THEN <<"For security reasons, your source AMI filter must declare an owner.">>
        ELSE <<>>)

\* A plausible slip in the rule: the two fields given together are accepted.
InstanceTypeErrors_NoBoth(c) ==
    IF c.InstanceType = <<>> /\ Len(c.SpotInstanceTypes) = 0
    THEN <<"either instance_type or spot_instance_types must be specified">>
    ELSE <<>>

\* RunConfig.Prepare 298-306
InstanceTypeErrors(c) ==
    (IF c.InstanceType = <<>> /\ Len(c.SpotInstanceTypes) = 0
     THEN <<"either instance_type or spot_instance_types must be specified">>
     ELSE <<>>)
    \o (IF c.InstanceType # <<>> /\ Len(c.SpotInstanceTypes) > 0
        THEN <<"either instance_type or spot_instance_types must be specified, not both">>
        ELSE <<>>)

\* A plausible slip in the rule: only a positive duration is tested.
BlockDurationErrors_PositiveOnly(c) ==
    IF c.BlockDurationMinutes > 0 /\ GoRem(c.BlockDurationMinutes, 60) # 0
    THEN <<"block_duration_minutes must be multiple of 60">> ELSE <<>>

\* RunConfig.Prepare 308-311
BlockDurationErrors(c) ==
    IF GoRem(c.BlockDurationMinutes, 60) # 0
    THEN <<"block_duration_minutes must be multiple of 60">> ELSE <<>>

\* RunConfig.Prepare 313-332
SpotErrors(c) ==
    (IF c.SpotPrice = "auto" /\ c.SpotPriceAutoProduct = ""
     THEN <<"spot_price_auto_product must be specified when spot_price is auto">>
     ELSE <<>>)
    \o (IF c.SpotPriceAutoProduct # "" /\ c.SpotPrice # "auto"
        THEN <<"spot_price should be set to auto when spot_price_auto_product is specified">>
        ELSE <<>>)
    \o (IF IsSet(c.SpotTags) /\ (c.SpotPrice = "" \/ c.SpotPrice = "0")
        THEN <<"spot_tags should not be set when not requesting a spot instance">>
        ELSE <<>>)

\* RunConfig.Prepare 334-340
UserDataErrors(c, env) ==
    IF c.UserData # "" /\ c.UserDataFile # ""
    THEN <<"Only one of user_data or user_data_file can be specified.">>
    ELSE IF c.UserDataFile # "" /\ Stat(c.UserDataFile, env.StatUserDataFile) # "ok"
    THEN <<"user_data_file not found: " \o c.UserDataFile>>
    ELSE <<>>

\* RunConfig.Prepare 342-349: the error, and the configuration it leaves.
SecurityGroupErrors(c) ==
    IF c.SecurityGroupId # "" /\ Len(c.SecurityGroupIds) > 0
    THEN <<"Only one of security_group_id or security_group_ids can be specified.">>
    ELSE <<>>

\* A plausible slip in the move of the single id: security_group_id is not
\* emptied.
SecurityGroupDefaults_KeepId(c) ==
    IF c.SecurityGroupId # "" /\ Len(c.SecurityGroupIds) = 0
    THEN [c EXCEPT !.SecurityGroupIds = <<c.SecurityGroupId>>]
    ELSE c

SecurityGroupDefaults(c) ==
    IF c.SecurityGroupId # "" /\ Len(c.SecurityGroupIds) = 0
    THEN [c EXCEPT !.SecurityGroupIds = <<c.SecurityGroupId>>,
                   !.SecurityGroupId = ""]
    ELSE c

\* RunConfig.Prepare 351-359
RECURSIVE CidrErrorsFrom(_, _)
CidrErrorsFrom(cidrs, i) ==
    IF i > Len(cidrs) THEN <<>>
    ELSE LET err == ParseCIDRError(cidrs[i])
         IN  (IF IsSet(err)
              THEN <<"Error parsing CIDR in temporary_security_group_source_cidrs: "
                        \o Deref(err)>>
              ELSE <<>>)
             \o CidrErrorsFrom(cidrs, i + 1)

CidrErrors(c) ==
    IF Len(c.TemporarySGSourceCidrs) = 0 THEN <<>>
    ELSE CidrErrorsFrom(c.TemporarySGSourceCidrs, 1)

CidrDefaults(c) ==
    IF Len(c.TemporarySGSourceCidrs) = 0
    THEN [c EXCEPT !.TemporarySGSourceCidrs = <<"0.0.0.0/0">>]
    ELSE c

\* RunConfig.Prepare 361-365
ShutdownBehaviorErrors(c) ==
    IF c.InstanceInitiatedShutdownBehavior # ""
        /\ ~reShutdownBehavior(c.InstanceInitiatedShutdownBehavior)
    THEN <<"shutdown_behavior only accepts 'stop' or 'terminate' values.">>
    ELSE <<>>

\* A plausible slip: the default of shutdown_behavior is left out.
ShutdownBehaviorDefaults_None(c) == c

ShutdownBehaviorDefaults(c) ==
    IF c.InstanceInitiatedShutdownBehavior = ""
    THEN [c EXCEPT !.InstanceInitiatedShutdownBehavior = "stop"]
    ELSE c

\* A plausible slip in the test of the family: the instance type is tested for
\* the prefix "t2", not for the text before its first ".".
T2Errors_PrefixOnly(c) ==
    IF ~c.EnableT2Unlimited THEN <<>>
    ELSE (IF c.SpotPrice # ""
          THEN <<"Error: T2 Unlimited cannot be used in conjuction with Spot Instances">>
          ELSE <<>>)
         \o (IF Len(c.InstanceType) < 2 \/ SubSeq(c.InstanceType, 1, 2) # <<"t", "2">>
             THEN <<"Error: T2 Unlimited enabled with a non-T2 Instance Type: "
                       \o Cat(c.InstanceType)>>
             ELSE <<>>)

\* RunConfig.Prepare 367-377
T2Errors(c) ==
    IF ~c.EnableT2Unlimited THEN <<>>
    ELSE (IF c.SpotPrice # ""
          THEN <<"Error: T2 Unlimited cannot be used in conjuction with Spot Instances">>
          ELSE <<>>)
         \o LET firstDotIndex == IndexOfDot(c.InstanceType, 1)
            IN  IF firstDotIndex = -1
                THEN <<"Error determining main Instance Type from: " \o Cat(c.InstanceType)>>
                ELSE IF SubSeq(c.InstanceType, 1, firstDotIndex) # <<"t", "2">>
                THEN <<"Error: T2 Unlimited enabled with a non-T2 Instance Type: "
                          \o Cat(c.InstanceType)>>
                ELSE <<>>

\* The errors msgs as they stand in the returned list: each message with the
\* rule of Prepare that appended it.
Reported(rule, msgs) == [i \in 1..Len(msgs) |-> [rule |-> rule, msg |-> msgs[i]]]

\* One statement of Prepare having run: the assignment of a default, or the
\* evaluation of a rule.
Phase(kind, name) == <<[kind |-> kind, name |-> name]>>

PhaseIf(applies, kind, name) == IF applies THEN Phase(kind, name) ELSE <<>>

\* The statements of RunConfig.Prepare in the order they run, on the
\* configuration c it is given: the defaults of 256-268 where they apply, the
\* rules of 271-346, then the two statements that either assign a default or
\* evaluate the rule of the field (351-359 on c2, 361-365 on c3), then the
\* rule of 367-377.
RunConfigPhases(c, c2, c3) ==
    PhaseIf(c.SSHKeyPairName = "" /\ c.SSHTemporaryKeyPairName = ""
                /\ c.SSHPrivateKeyFile = "" /\ c.SSHPassword = "",
            "default", "temporary_key_pair_name")
        \o PhaseIf(c.WindowsPasswordTimeout = ZeroDuration,
                   "default", "windows_password_timeout")
        \o PhaseIf(IsNil(c.RunTags), "default", "run_tags")
        \o Phase("validate", "comm")
        \o Phase("validate", "ssh_interface")
        \o Phase("validate", "ssh_keypair_name")
        \o Phase("validate", "source_ami")
        \o Phase("validate", "instance_type")
        \o Phase("validate", "block_duration_minutes")
        \o Phase("validate", "spot")
        \o Phase("validate", "user_data")
        \o Phase("validate", "security_group_id")
        \o Phase(IF Len(c2.TemporarySGSourceCidrs) = 0 THEN "default" ELSE "validate",
                 "temporary_security_group_source_cidrs")
        \o Phase(IF c3.InstanceInitiatedShutdownBehavior = "" THEN "default" ELSE "validate",
                 "shutdown_behavior")
        \o Phase("validate", "enable_t2_unlimited")

\* func (c *RunConfig) Prepare(ctx) []error: the configuration it leaves and
\* the errors it returns, in the order of the source.
RunConfig_Prepare(c, env) ==
    LET c1 == RunConfigDefaults(c, env)
        e1 == Reported("comm", env.CommErrs)
                \o Reported("ssh_interface", SSHInterfaceErrors(c1))
                \o Reported("ssh_keypair_name", KeyPairErrors(c1))
                \o Reported("source_ami", SourceAmiErrors(c1))
                \o Reported("instance_type", InstanceTypeErrors(c1))
                \o Reported("block_duration_minutes", BlockDurationErrors(c1))
                \o Reported("spot", SpotErrors(c1))
                \o Reported("user_data", UserDataErrors(c1, env))
                \o Reported("security_group_id", SecurityGroupErrors(c1))
        c2 == SecurityGroupDefaults(c1)
        e2 == e1 \o Reported("temporary_security_group_source_cidrs", CidrErrors(c2))
        c3 == CidrDefaults(c2)
        e3 == e2 \o Reported("shutdown_behavior", ShutdownBehaviorErrors(c3))
        c4 == ShutdownBehaviorDefaults(c3)
        e4 == e3 \o Reported("enable_t2_unlimited", T2Errors(c4))
    IN  [c |-> c4, errs |-> e4, phases |-> RunConfigPhases(c, c2, c3)]

\* The configuration being decoded for RunConfig.Prepare, with what
\* surrounds the call: the valid one until a fragment has been decoded.
RunConfigGiven == IF op = "RunConfig.given" THEN arg.x ELSE ValidRunConfig

RunConfigPending == op \in {"none", "RunConfig.given"}

\* config.Decode applies one more fragment of the template (or the
\* surroundings differ in one more respect): one field takes another value.
GiveRunConfig ==
    /\ RunConfigPending
    /\ \E f \in DOMAIN RunConfigValues :
        \E v \in RunConfigValues[f] \ {RunConfigGiven[f]} :
            LET x == [RunConfigGiven EXCEPT ![f] = v]
            IN  /\ Differs(x, ValidRunConfig) <= MaxVaried
                /\ op' = "RunConfig.given"
                /\ arg' = [x |-> x]
                /\ ret' = [none |-> TRUE]

PrepareRunConfig ==
    /\ RunConfigPending
    /\ LET c   == Sub(RunConfigGiven, RunConfigFields)
           env == Sub(RunConfigGiven, RunConfigEnvFields)
       IN  /\ op' = "RunConfig.Prepare"
           /\ arg' = [c |-> c, env |-> env]
           /\ ret' = RunConfig_Prepare(c, env)

NextRunConfig == GiveRunConfig \/ PrepareRunConfig

SpecRunConfig == Init /\ [][NextRunConfig]_vars

----------------------------------------------------------------------------
(* builder/cloudstack: NewConfig *)

\* The fields of the cloudstack Config that NewConfig reads or writes, and
\* what NewConfig takes from outside: the error of config.Decode, the three
\* environment variables, the error of interpolate.Render, the timestamp it
\* renders, the uuids, the errors of Comm.Prepare and what os.Stat says of
\* user_data_file.
CloudstackValues ==
    [DecodeErr               |-> DecodeErrors,
     APIURL                  |-> {"https://given/api", ""},
     APIKey                  |-> {"given-key", ""},
     SecretKey               |-> {"given-secret", ""},
     EnvAPIURL               |-> {"", "https://env/api"},
     EnvAPIKey               |-> {"", "env-key"},
     EnvSecretKey            |-> {"", "env-secret"},
     AsyncTimeout            |-> {ZeroDuration, Minutes(5)},
     CIDRList                |-> {<<>>, <<"10.0.0.0/8">>},
     InstanceName            |-> {"", "instance"},
     TemplateName            |-> {"", "template"},
     TemplateDisplayText     |-> {"", "display text"},
     RenderErr               |-> {Nil, Ptr("template: parse error")},
     Timestamp               |-> {"1572600000"},
     SSHKeyPairName          |-> {"", "kp"},
     SSHTemporaryKeyPairName |-> {"", "tmpkp"},
     SSHPrivateKeyFile       |-> {"", "id_rsa"},
     SSHPassword             |-> {"", "pw"},
     Uuids                   |-> {<<"5ca1ab1e", "decade00">>},
     Network                 |-> {"net", ""},
     CreateSecurityGroup     |-> BOOLEAN,
     Expunge                 |-> BOOLEAN,
     ServiceOffering         |-> {"small", ""},
     SourceISO               |-> {"", "install.iso"},
     SourceTemplate          |-> {"base-template", ""},
     DiskOffering            |-> {"", "disk20"},
     Hypervisor              |-> {"", "KVM"},
     TemplateOS              |-> {"linux", ""},
     UserData                |-> {"", "#!/bin/sh"},
     UserDataFile            |-> {"", "user-data.sh"},
     StatUserDataFile        |-> StatOutcomes,
     Zone                    |-> {"zone1", ""},
     CommErrs                |-> {<<>>, <<"An ssh_username must be specified">>}]

CloudstackEnvFields ==
    {"DecodeErr", "EnvAPIURL", "EnvAPIKey", "EnvSecretKey", "RenderErr",
     "Timestamp", "Uuids", "StatUserDataFile", "CommErrs"}

CloudstackFields == DOMAIN CloudstackValues \ CloudstackEnvFields

\* A configuration cloudstack NewConfig finds nothing wrong with.
ValidCloudstack ==
    [DecodeErr               |-> Nil,
     APIURL                  |-> "https://given/api",
     APIKey                  |-> "given-key",
     SecretKey               |-> "given-secret",
     EnvAPIURL               |-> "",
     EnvAPIKey               |-> "",
     EnvSecretKey            |-> "",
     AsyncTimeout            |-> ZeroDuration,
     CIDRList                |-> <<>>,
     InstanceName            |-> "",
     TemplateName            |-> "",
     TemplateDisplayText     |-> "",
     RenderErr               |-> Nil,
     Timestamp               |-> "1572600000",
     SSHKeyPairName          |-> "",
     SSHTemporaryKeyPairName |-> "",
     SSHPrivateKeyFile       |-> "",
     SSHPassword             |-> "",
     Uuids                   |-> <<"5ca1ab1e", "decade00">>,
     Network                 |-> "net",
     CreateSecurityGroup     |-> FALSE,
     Expunge                 |-> FALSE,
     ServiceOffering         |-> "small",
     SourceISO               |-> "",
     SourceTemplate          |-> "base-template",
     DiskOffering            |-> "",
     Hypervisor              |-> "",
     TemplateOS              |-> "linux",
     UserData                |-> "",
     UserDataFile            |-> "",
     StatUserDataFile        |-> "ok",
     Zone                    |-> "zone1",
     CommErrs                |-> <<>>]

\* os.Getenv of the three variables, as read when NewConfig runs.
Getenv(env, name) ==
    CASE name = "CLOUDSTACK_API_URL"    -> env.EnvAPIURL
      [] name = "CLOUDSTACK_API_KEY"    -> env.EnvAPIKey
      [] name = "CLOUDSTACK_SECRET_KEY" -> env.EnvSecretKey

\* interpolate.Render("packer-{{timestamp}}", nil): the name, or "" with an
\* error.
RenderTemplateName(env) ==
    IF IsSet(env.RenderErr) THEN [name |-> "", err |-> env.RenderErr]
    ELSE [name |-> "packer-" \o env.Timestamp, err |-> Nil]

\* A plausible slip in the fallback: the environment variable, when set,
\* is taken even if the field was given.
EnvFallback_EnvFirst(given, env, name) ==
    IF Getenv(env, name) # "" THEN Getenv(env, name) ELSE given

\* if c.X == "" { c.X = os.Getenv(name) }
EnvFallback(given, env, name) ==
    IF given = "" THEN Getenv(env, name) ELSE given

\* cloudstack NewConfig 93-141: the defaults (the error of the rendering of
\* the template name is appended by CloudstackNewConfig).
CloudstackDefaults(c, env) ==
    LET c1 == [c EXCEPT
                !.APIURL       = EnvFallback(@, env, "CLOUDSTACK_API_URL"),
                !.APIKey       = EnvFallback(@, env, "CLOUDSTACK_API_KEY"),
                !.SecretKey    = EnvFallback(@, env, "CLOUDSTACK_SECRET_KEY"),
                !.AsyncTimeout = IF @ = ZeroDuration THEN Minutes(30) ELSE @,
                !.CIDRList     = IF Len(@) = 0 THEN <<"0.0.0.0/0">> ELSE @,
                !.InstanceName = IF @ = "" THEN "packer-" \o env.Uuids[1] ELSE @,
                !.TemplateName = IF @ = "" THEN RenderTemplateName(env).name ELSE @]
        c2 == [c1 EXCEPT
                !.TemplateDisplayText = IF @ = "" THEN c1.TemplateName ELSE @]
    IN  [c2 EXCEPT
            !.SSHTemporaryKeyPairName =
                IF c2.SSHKeyPairName = "" /\ c2.SSHTemporaryKeyPairName = ""
                    /\ c2.SSHPrivateKeyFile = "" /\ c2.SSHPassword = ""
                THEN "packer_" \o env.Uuids[IF c.InstanceName = "" THEN 2 ELSE 1]
                ELSE @]

\* A plausible slip in the condition: the field is required whatever the
\* instance is provisioned from.
MissingWithSourceISO_Always(c, value) == value = ""

\* c.SourceISO != "" && <field> == ""
MissingWithSourceISO(c, value) == c.SourceISO # "" /\ value = ""

\* cloudstack NewConfig 143-210: the required parameters and the rules.
CloudstackRules(c, env, a0) ==
    LET a1  == Check(a0, "api_url", c.APIURL = "", "a api_url must be specified")
        a2  == Check(a1, "api_key", c.APIKey = "", "a api_key must be specified")
        a3  == Check(a2, "secret_key", c.SecretKey = "", "a secret_key must be specified")
        a4  == Check(a3, "network", c.Network = "", "a network must be specified")
        a5  == Check(a4, "create_security_group", c.CreateSecurityGroup /\ ~c.Expunge,
                     "auto creating a temporary security group requires expunge")
        a6  == Check(a5, "service_offering", c.ServiceOffering = "",
                     "a service_offering must be specified")
        a7  == Check(a6, "source_missing", c.SourceISO = "" /\ c.SourceTemplate = "",
                     "either source_iso or source_template must be specified")
        a8  == Check(a7, "source_both", c.SourceISO # "" /\ c.SourceTemplate # "",
                     "only one of source_iso or source_template can be specified")
        a9  == Check(a8, "disk_offering", MissingWithSourceISO(c, c.DiskOffering),
                     "a disk_offering must be specified when using source_iso")
        a10 == Check(a9, "hypervisor", MissingWithSourceISO(c, c.Hypervisor),
                     "a hypervisor must be specified when using source_iso")
        a11 == Check(a10, "template_os", c.TemplateOS = "",
                     "a template_os must be specified")
        a12 == Check(a11, "user_data", c.UserData # "" /\ c.UserDataFile # "",
                     "only one of user_data or user_data_file can be specified")
        a13 == Check(a12, "user_data_file",
                     c.UserDataFile # ""
                        /\ Stat(c.UserDataFile, env.StatUserDataFile) # "ok",
                     "user_data_file not found: " \o c.UserDataFile)
        a14 == Check(a13, "zone", c.Zone = "", "a zone must be specified")
    IN  IF Len(env.CommErrs) > 0 THEN Collect(a14, "comm", env.CommErrs)
        ELSE [a14 EXCEPT !.steps = Ran(a14, "comm", <<>>)]

\* func NewConfig(raws ...interface{}) (*Config, error) of package
\* cloudstack, on the configuration c that config.Decode produced.
CloudstackNewConfig(c, env) ==
    IF IsSet(env.DecodeErr) THEN DecodeFailed(Deref(env.DecodeErr))
    ELSE LET c1 == CloudstackDefaults(c, env)
             r  == RenderTemplateName(env)
             a0 == Check(NoErrors, "template_name",
                         c.TemplateName = "" /\ IsSet(r.err),
                         "Unable to parse template name: "
                            \o (IF IsSet(r.err) THEN Deref(r.err) ELSE "") \o " ")
         IN  Resolved(c1, CloudstackRules(c1, env, a0))

CloudstackGiven == IF op = "cloudstack.given" THEN arg.x ELSE ValidCloudstack

CloudstackPending == op \in {"none", "cloudstack.given"}

\* config.Decode applies one more fragment of the template (or the
\* surroundings differ in one more respect): one field takes another value.
GiveCloudstack ==
    /\ CloudstackPending
    /\ \E f \in DOMAIN CloudstackValues :
        \E v \in CloudstackValues[f] \ {CloudstackGiven[f]} :
            LET x == [CloudstackGiven EXCEPT ![f] = v]
            IN  /\ Differs(x, ValidCloudstack) <= MaxVaried
                /\ op' = "cloudstack.given"
                /\ arg' = [x |-> x]
                /\ ret' = [none |-> TRUE]

NewCloudstackConfig ==
    /\ CloudstackPending
    /\ LET c   == Sub(CloudstackGiven, CloudstackFields)
           env == Sub(CloudstackGiven, CloudstackEnvFields)
       IN  /\ op' = "cloudstack.NewConfig"
           /\ arg' = [c |-> c, env |-> env, decodeErr |-> env.DecodeErr]
           /\ ret' = CloudstackNewConfig(c, env)

----------------------------------------------------------------------------
(* builder/virtualbox/ovf: NewConfig *)

\* strings.ToLower, character by character.
LowerOf ==
    [A |-> "a", B |-> "b", C |-> "c", D |-> "d", E |-> "e", F |-> "f",
     G |-> "g", H |-> "h", I |-> "i", J |-> "j", K |-> "k", L |-> "l",
     M |-> "m", N |-> "n", O |-> "o", P |-> "p", Q |-> "q", R |-> "r",
     S |-> "s", T |-> "t", U |-> "u", V |-> "v", W |-> "w", X |-> "x",
     Y |-> "y", Z |-> "z"]

ToLower(cs) ==
    [i \in 1..Len(cs) |-> IF cs[i] \in DOMAIN LowerOf THEN LowerOf[cs[i]] ELSE cs[i]]

\* The Prepare entry points NewConfig calls, in the order of its calls
\* (config.go 92-104).
OvfPrepareOrder ==
    <<"ExportConfig", "ExportOpts", "FloppyConfig", "HTTPConfig",
      "OutputConfig", "RunConfig", "ShutdownConfig", "SSHConfig",
      "VBoxManageConfig", "VBoxManagePostConfig", "VBoxVersionConfig",
      "BootConfig", "GuestAdditionsConfig">>

\* The sub-configurations with a Prepare entry point, in the order in which
\* the Config type embeds them (config.go 19-31; common.PackerConfig, embedded
\* first, has none).
OvfEmbedOrder ==
    <<"HTTPConfig", "FloppyConfig", "BootConfig", "ExportConfig", "ExportOpts",
      "OutputConfig", "RunConfig", "SSHConfig", "ShutdownConfig",
      "VBoxManageConfig", "VBoxManagePostConfig", "VBoxVersionConfig",
      "GuestAdditionsConfig">>

\* What the Prepare of a sub-configuration returns: nothing, one error, two.
PrepareErrors(name) ==
    {<<>>, <<name \o ": first error">>,
     <<name \o ": first error", name \o ": second error">>}

\* vboxcommon.GuestAdditionsModeDisable, ...Attach, ...Upload
validModes == <<"disable", "attach", "upload">>

\* The fields of the virtualbox-ovf Config that NewConfig reads or writes
\* itself, and what NewConfig takes from outside: the error of
\* config.Decode, interpolate.InitTime, what os.Stat says of source_path, and
\* the errors each Prepare returns.
OvfValues ==
    [DecodeErr               |-> DecodeErrors,
     PackerBuildName         |-> {"ubuntu", ""},
     InitTimeUnix            |-> {1572600000},
     GuestAdditionsMode      |-> {"", "disable", "attach", "upload", "Upload", "none"},
     GuestAdditionsPath      |-> {"", "additions.iso"},
     GuestAdditionsInterface |-> {"", "sata"},
     GuestAdditionsSHA256    |-> {<<>>, <<"A", "b", "0", "1">>},
     VMName                  |-> {"", "vm"},
     Checksum                |-> {<<"d", "e", "a", "d">>, <<"D", "E", "a", "d">>, <<>>},
     ChecksumType            |-> {<<"m", "d", "5">>, <<"M", "D", "5">>, <<>>},
     SourcePath              |-> {"source.ovf", ""},
     StatSourcePath          |-> StatOutcomes,
     ShutdownCommand         |-> {"halt -p", ""},
     ImportOpts              |-> {"", "keepallmacs"},
     ImportFlags             |-> {<<>>, <<"--eula-accept">>},
     ExportConfig            |-> PrepareErrors("ExportConfig"),
     ExportOpts              |-> PrepareErrors("ExportOpts"),
     FloppyConfig            |-> PrepareErrors("FloppyConfig"),
     HTTPConfig              |-> PrepareErrors("HTTPConfig"),
     OutputConfig            |-> PrepareErrors("OutputConfig"),
     RunConfig               |-> PrepareErrors("RunConfig"),
     ShutdownConfig          |-> PrepareErrors("ShutdownConfig"),
     SSHConfig               |-> PrepareErrors("SSHConfig"),
     VBoxManageConfig        |-> PrepareErrors("VBoxManageConfig"),
     VBoxManagePostConfig    |-> PrepareErrors("VBoxManagePostConfig"),
     VBoxVersionConfig       |-> PrepareErrors("VBoxVersionConfig"),
     BootConfig              |-> PrepareErrors("BootConfig"),
     GuestAdditionsConfig    |-> PrepareErrors("GuestAdditionsConfig")]

OvfEnvFields ==
    {"DecodeErr", "InitTimeUnix", "StatSourcePath"}
        \cup {OvfPrepareOrder[i] : i \in 1..Len(OvfPrepareOrder)}

OvfFields == DOMAIN OvfValues \ OvfEnvFields

\* A configuration virtualbox-ovf NewConfig finds nothing wrong with.
ValidOvf ==
    [DecodeErr               |-> Nil,
     PackerBuildName         |-> "ubuntu",
     InitTimeUnix            |-> 1572600000,
     GuestAdditionsMode      |-> "",
     GuestAdditionsPath      |-> "",
     GuestAdditionsInterface |-> "",
     GuestAdditionsSHA256    |-> <<>>,
     VMName                  |-> "",
     Checksum                |-> <<"d", "e", "a", "d">>,
     ChecksumType            |-> <<"m", "d", "5">>,
     SourcePath              |-> "source.ovf",
     StatSourcePath          |-> "ok",
     ShutdownCommand         |-> "halt -p",
     ImportOpts              |-> "",
     ImportFlags             |-> <<>>,
     ExportConfig            |-> <<>>,
     ExportOpts              |-> <<>>,
     FloppyConfig            |-> <<>>,
     HTTPConfig              |-> <<>>,
     OutputConfig            |-> <<>>,
     RunConfig               |-> <<>>,
     ShutdownConfig          |-> <<>>,
     SSHConfig               |-> <<>>,
     VBoxManageConfig        |-> <<>>,
     VBoxManagePostConfig    |-> <<>>,
     VBoxVersionConfig       |-> <<>>,
     BootConfig              |-> <<>>,
     GuestAdditionsConfig    |-> <<>>]

\* virtualbox-ovf NewConfig 73-88: the defaults.
OvfDefaults(c, env) ==
    [c EXCEPT
        !.GuestAdditionsMode      = IF @ = "" THEN "upload" ELSE @,
        !.GuestAdditionsPath      = IF @ = "" THEN "VBoxGuestAdditions.iso" ELSE @,
        !.GuestAdditionsInterface = IF @ = "" THEN "ide" ELSE @,
        !.VMName = IF @ = ""
                   THEN "packer-" \o c.PackerBuildName \o "-" \o ToString(env.InitTimeUnix)
                   ELSE @]

\* virtualbox-ovf NewConfig 90-104: from the i-th call on, each Prepare is
\* called and its errors are appended to the aggregate.
RECURSIVE OvfPrepareAll(_, _, _)
OvfPrepareAll(env, acc, i) ==
    IF i > Len(OvfPrepareOrder) THEN acc
    ELSE OvfPrepareAll(
            env, Collect(acc, OvfPrepareOrder[i], env[OvfPrepareOrder[i]]), i + 1)

\* for _, mode := range validModes { if c.GuestAdditionsMode == mode ... }
validMode(mode) == \E i \in 1..Len(validModes) : validModes[i] = mode

\* virtualbox-ovf NewConfig 109-135: the rules of the backend.
OvfRules(c, env, a0) ==
    LET a1 == Check(a0, "source_path", c.SourcePath = "", "source_path is required")
        a2 == CheckInPlace(a1, "source_path_stat",
                           Stat(c.SourcePath, env.StatSourcePath) # "ok",
                           "Source file '" \o c.SourcePath
                              \o "' needs to exist at time of config validation! "
                              \o Stat(c.SourcePath, env.StatSourcePath))
    IN  Check(a2, "guest_additions_mode", ~validMode(c.GuestAdditionsMode),
              "guest_additions_mode is invalid. Must be one of: [disable attach upload]")

\* virtualbox-ovf NewConfig 141-147
OvfWarnings(c) ==
    IF c.ShutdownCommand = ""
    THEN <<"A shutdown_command was not specified. Without a shutdown command, Packer will forcibly halt the virtual machine, which may result in data loss.">>
    ELSE <<>>

\* func NewConfig(raws ...interface{}) (*Config, []string, error) of package
\* ovf, on the configuration c that config.Decode produced.
OvfNewConfig(c, env) ==
    IF IsSet(env.DecodeErr)
    THEN DecodeFailed(Deref(env.DecodeErr)) @@ [warnings |-> <<>>]
    ELSE LET c1 == OvfDefaults(c, env)
             a1 == OvfPrepareAll(env, NoErrors, 1)
             c2 == [c1 EXCEPT !.ChecksumType = ToLower(@),
                              !.Checksum = ToLower(@)]
             a2 == OvfRules(c2, env, a1)
             c3 == [c2 EXCEPT !.GuestAdditionsSHA256 =
                                IF @ # <<>> THEN ToLower(@) ELSE @]
             c4 == [c3 EXCEPT !.ImportFlags =
                                IF c3.ImportOpts # ""
                                THEN @ \o <<"--options", c3.ImportOpts>> ELSE @]
         IN  Resolved(c4, a2) @@ [warnings |-> OvfWarnings(c3)]

OvfGiven == IF op = "virtualbox-ovf.given" THEN arg.x ELSE ValidOvf

OvfPending == op \in {"none", "virtualbox-ovf.given"}

\* config.Decode applies one more fragment of the template (or the
\* surroundings differ in one more respect): one field takes another value.
GiveOvf ==
    /\ OvfPending
    /\ \E f \in DOMAIN OvfValues :
        \E v \in OvfValues[f] \ {OvfGiven[f]} :
            LET x == [OvfGiven EXCEPT ![f] = v]
            IN  /\ Differs(x, ValidOvf) <= MaxVaried
                /\ op' = "virtualbox-ovf.given"
                /\ arg' = [x |-> x]
                /\ ret' = [none |-> TRUE]

NewOvfConfig ==
    /\ OvfPending
    /\ LET c   == Sub(OvfGiven, OvfFields)
           env == Sub(OvfGiven, OvfEnvFields)
       IN  /\ op' = "virtualbox-ovf.NewConfig"
           /\ arg' = [c |-> c, env |-> env, decodeErr |-> env.DecodeErr]
           /\ ret' = OvfNewConfig(c, env)

\* NewConfig is called again, on the configuration the call before returned
\* (the whole of it as one fragment), with the same surroundings.
NewOvfConfigAgain ==
    /\ op = "virtualbox-ovf.NewConfig"
    /\ IsSet(ret.c)
    /\ op' = "virtualbox-ovf.NewConfig.again"
    /\ arg' = [c |-> Deref(ret.c), env |-> arg.env, decodeErr |-> arg.decodeErr]
    /\ ret' = OvfNewConfig(Deref(ret.c), arg.env)

NextNewConfig ==
    \/ NewLxcConfig
    \/ NewLxdConfig
    \/ GiveCloudstack
    \/ NewCloudstackConfig
    \/ GiveOvf
    \/ NewOvfConfig
    \/ NewOvfConfigAgain

SpecNewConfig == Init /\ [][NextNewConfig]_vars

----------------------------------------------------------------------------
(* builder/vmware/common: ExportConfig.Prepare *)

ExportConfigDomain ==
    [Format         : {"", "ova", "ovf", "vmx", "OVF", "zip"},
     OVFToolOptions : {<<>>, <<"--compress=9">>},
     SkipExport     : BOOLEAN,
     KeepRegistered : BOOLEAN,
     SkipCompaction : BOOLEAN]

\* func (c *ExportConfig) Prepare(ctx *interpolate.Context) []error
ExportConfig_Prepare(c) ==
    [c    |-> c,
     errs |-> IF c.Format # ""
              THEN IF ~(c.Format = "ova" \/ c.Format = "ovf" \/ c.Format = "vmx")
                   THEN <<"format must be one of ova, ovf, or vmx">>
                   ELSE <<>>
              ELSE <<>>]

PrepareExportConfig ==
    /\ Idle
    /\ \E c \in ExportConfigDomain :
        /\ op' = "ExportConfig.Prepare"
        /\ arg' = [c |-> c]
        /\ ret' = ExportConfig_Prepare(c)

----------------------------------------------------------------------------
(* builder/triton: SourceMachineConfig.Prepare *)

MachineImageFilterDomain ==
    [MostRecent : {FALSE},
     Name       : {"", "ubuntu-16.04"},
     OS         : {"", "linux"},
     Version    : {"", "20170403"},
     Public     : {FALSE},
     State      : {"", "active"},
     Owner      : {"", "9dce1460"},
     Type       : {"", "lx-dataset"}]

\* A nil slice or map is Nil, one that has been made is Ptr of its content.
SourceMachineConfigDomain ==
    [MachineName            : {""},
     MachinePackage         : {"", "g3-standard-0.5-smartos"},
     MachineImage           : {"", "70e3ae72"},
     MachineNetworks        : {Nil, Ptr(<<>>), Ptr(<<"net-1">>)},
     MachineMetadata        : {Nil, Ptr(<<>>)},
     MachineTags            : {Nil, Ptr(<<>>)},
     MachineFirewallEnabled : {FALSE},
     MachineImageFilters    : MachineImageFilterDomain]

\* func (m *MachineImageFilter) Empty() bool
MachineImageFilter_Empty(m) ==
    /\ m.Name = ""
    /\ m.OS = ""
    /\ m.Version = ""
    /\ m.State = ""
    /\ m.Owner = ""
    /\ m.Type = ""

\* A plausible slip in the order of Prepare: the errors are returned before
\* the nil collections are made.
SourceMachineConfig_Prepare_ErrorsFirst(c) ==
    LET e1 == IF c.MachinePackage = ""
              THEN <<"A source_machine_package must be specified">> ELSE <<>>
        e2 == IF c.MachineImage # "" /\ c.MachineImageFilters.Name # ""
              THEN <<"You cannot specify a Machine Image and also Machine Name filter">>
              ELSE <<>>
    IN  IF Len(e1 \o e2) > 0 THEN [c |-> c, errs |-> e1 \o e2]
        ELSE [c    |-> [c EXCEPT
                        !.MachineNetworks = IF IsNil(@) THEN Ptr(<<>>) ELSE @,
                        !.MachineMetadata = IF IsNil(@) THEN Ptr(<<>>) ELSE @,
                        !.MachineTags     = IF IsNil(@) THEN Ptr(<<>>) ELSE @],
              errs |-> <<>>]

\* func (c *SourceMachineConfig) Prepare(ctx *interpolate.Context) []error
\* (a nil result is the empty list)
SourceMachineConfig_Prepare(c) ==
    LET e1 == IF c.MachinePackage = ""
              THEN <<"A source_machine_package must be specified">> ELSE <<>>
        e2 == IF c.MachineImage # "" /\ c.MachineImageFilters.Name # ""
              THEN <<"You cannot specify a Machine Image and also Machine Name filter">>
              ELSE <<>>
    IN  [c    |-> [c EXCEPT
                    !.MachineNetworks = IF IsNil(@) THEN Ptr(<<>>) ELSE @,
                    !.MachineMetadata = IF IsNil(@) THEN Ptr(<<>>) ELSE @,
                    !.MachineTags     = IF IsNil(@) THEN Ptr(<<>>) ELSE @],
         errs |-> e1 \o e2]

PrepareSourceMachineConfig ==
    /\ Idle
    /\ \E c \in SourceMachineConfigDomain :
        /\ op' = "SourceMachineConfig.Prepare"
        /\ arg' = [c |-> c]
        /\ ret' = SourceMachineConfig_Prepare(c)

----------------------------------------------------------------------------
(* builder/alicloud/ecs: AlicloudImageConfig.Prepare *)

MaxRegions == 3

RegionNames == {"cn-hangzhou", "cn-beijing", "us-west-1"}

\* A name of n letters.
Letters(n) == [i \in 1..n |-> "a"]

\* image_name as its characters (all of one byte).
ImageNames ==
    {<<>>, <<"a">>, <<"i", "m", "g">>, <<"m", "y", " ", "i", "m", "g">>,
     <<"h", "t", "t", "p", ":", "/", "/", "x">>,
     <<"h", "t", "t", "p", "s", ":", "/", "/", "x", "\t", "y">>,
     Letters(128), Letters(129)}

\* The fields of AlicloudImageConfig that Prepare reads or that go with them.
AlicloudImageConfigDomain ==
    [AlicloudImageName               : ImageNames,
     AlicloudImageDestinationRegions : SeqsOver(RegionNames, 0, MaxRegions),
     AlicloudImageDestinationNames   : {<<>>, <<"copy-1", "copy-2">>,
                                        <<"copy-1", "copy-2", "copy-3">>}]

\* strings.HasPrefix
HasPrefix(cs, prefix) ==
    /\ Len(cs) >= Len(prefix)
    /\ SubSeq(cs, 1, Len(prefix)) = prefix

\* regexp.MustCompile("\\s+").FindString(name) != ""
HasSpace(cs) == \E i \in 1..Len(cs) : cs[i] \in {" ", "\t", "\n", "\r", "\f"}

\* AlicloudImageConfig.Prepare 62-73: the rules of image_name.
ImageNameErrors(name) ==
    (IF name = <<>> THEN <<"image_name must be specified">>
     ELSE IF Len(name) < 2 \/ Len(name) > 128
     THEN <<"image_name must less than 128 letters and more than 1 letters">>
     ELSE IF HasPrefix(name, <<"h", "t", "t", "p", ":", "/", "/">>)
                \/ HasPrefix(name, <<"h", "t", "t", "p", "s", ":", "/", "/">>)
     THEN <<"image_name can't start with 'http://' or 'https://'">>
     ELSE <<>>)
    \o (IF HasSpace(name) THEN <<"image_name can't include spaces">> ELSE <<>>)

\* AlicloudImageConfig.Prepare 79-88: the loop over the regions from the i-th
\* on, with the regions seen so far and the regions kept so far.
RECURSIVE DedupeFrom(_, _, _, _)
DedupeFrom(list, i, regionSet, regions) ==
    IF i > Len(list) THEN regions
    ELSE IF list[i] \in regionSet
    THEN DedupeFrom(list, i + 1, regionSet, regions)
    ELSE DedupeFrom(list, i + 1, regionSet \cup {list[i]}, Append(regions, list[i]))

Reverse(list) == [i \in 1..Len(list) |-> list[Len(list) + 1 - i]]

\* A plausible slip in the loop: of a region given twice the last occurrence is
\* kept, not the first.
DestinationRegions_KeepLast(list) ==
    IF Len(list) > 0 THEN Reverse(DedupeFrom(Reverse(list), 1, {}, <<>>)) ELSE list

\* AlicloudImageConfig.Prepare 75-91
DestinationRegions(list) ==
    IF Len(list) > 0 THEN DedupeFrom(list, 1, {}, <<>>) ELSE list

\* func (c *AlicloudImageConfig) Prepare(ctx *interpolate.Context) []error
\* (a nil result is the empty list)
AlicloudImageConfig_Prepare(c) ==
    [c    |-> [c EXCEPT !.AlicloudImageDestinationRegions = DestinationRegions(@)],
     errs |-> ImageNameErrors(c.AlicloudImageName)]

PrepareAlicloudImageConfig ==
    /\ Idle
    /\ \E c \in AlicloudImageConfigDomain :
        /\ op' = "AlicloudImageConfig.Prepare"
        /\ arg' = [c |-> c]
        /\ ret' = AlicloudImageConfig_Prepare(c)

NextPrepare ==
    \/ PrepareExportConfig
    \/ PrepareSourceMachineConfig
    \/ PrepareAlicloudImageConfig

SpecPrepare == Init /\ [][NextPrepare]_vars

----------------------------------------------------------------------------
(* A second resolution of the same input *)

\* A plausible slip in the collections the rules range over: a map in place
\* of a slice, whose range visits the elements in any order.
RangeOrders_OfMap(n) ==
    {ord \in [1..n -> 1..n] : \A i, j \in 1..n : i # j => ord[i] # ord[j]}

\* for _, x := range <slice of n elements>: the orders in which the range may
\* visit the indexes of the slice.  There is one: ascending.
RangeOrders(n) == {[i \in 1..n |-> i]}

\* The elements of the list in the order they are visited.
Visit(list, ord) == [i \in 1..Len(list) |-> list[ord[i]]]

\* BlockDevices.Prepare is called a second time on the same lists.
PrepareBlockDevicesAgain ==
    /\ op = "BlockDevices.Prepare"
    /\ \E oa \in RangeOrders(Len(arg.b.AMIMappings)) :
        \E ol \in RangeOrders(Len(arg.b.LaunchMappings)) :
            /\ op' = "BlockDevices.Prepare.again"
            /\ arg' = arg
            /\ ret' = [errs |-> BlockDevices_Prepare(
                            [AMIMappings    |-> Visit(arg.b.AMIMappings, oa),
                             LaunchMappings |-> Visit(arg.b.LaunchMappings, ol)])]

\* RunConfig.Prepare is called a second time on the same configuration, in
\* the same surroundings.
PrepareRunConfigAgain ==
    /\ op = "RunConfig.Prepare"
    /\ \E ord \in RangeOrders(Len(arg.c.TemporarySGSourceCidrs)) :
        /\ op' = "RunConfig.Prepare.again"
        /\ arg' = arg
        /\ ret' = RunConfig_Prepare(
                    [arg.c EXCEPT !.TemporarySGSourceCidrs = Visit(@, ord)], arg.env)

\* cloudstack NewConfig is called a second time on the same fragments, in the
\* same surroundings.  Its rules range over no collection.
NewCloudstackConfigAgain ==
    /\ op = "cloudstack.NewConfig"
    /\ op' = "cloudstack.NewConfig.again"
    /\ arg' = arg
    /\ ret' = CloudstackNewConfig(arg.c, arg.env)

\* The resolutions that are run twice.
NextAgain ==
    \/ PrepareBlockDevices
    \/ PrepareBlockDevicesAgain
    \/ GiveRunConfig
    \/ PrepareRunConfig
    \/ PrepareRunConfigAgain
    \/ GiveCloudstack
    \/ NewCloudstackConfig
    \/ NewCloudstackConfigAgain

SpecAgain == Init /\ [][NextAgain]_vars

\* The resolutions of the fields that hold a mode.
NextModes ==
    \/ GiveRunConfig
    \/ PrepareRunConfig
    \/ GiveOvf
    \/ NewOvfConfig

SpecModes == Init /\ [][NextModes]_vars

\* The resolutions that make the omitted collections.
NextCollections ==
    \/ PrepareSourceMachineConfig
    \/ GiveRunConfig
    \/ PrepareRunConfig

SpecCollections == Init /\ [][NextCollections]_vars

----------------------------------------------------------------------------
(* Every operation *)

Next ==
    \/ BuildDevices
    \/ PrepareBlockDevices
    \/ PrepareBlockDevicesAgain
    \/ PrepareShutdownConfig
    \/ PrepareExportConfig
    \/ PrepareSourceMachineConfig
    \/ PrepareAlicloudImageConfig
    \/ GiveRunConfig
    \/ PrepareRunConfig
    \/ PrepareRunConfigAgain
    \/ NewLxcConfig
    \/ NewLxdConfig
    \/ GiveCloudstack
    \/ NewCloudstackConfig
    \/ NewCloudstackConfigAgain
    \/ GiveOvf
    \/ NewOvfConfig
    \/ NewOvfConfigAgain

Spec == Init /\ [][Next]_vars

----------------------------------------------------------------------------
(* Claims about NewConfig *)

NewConfigOps ==
    {"lxc.NewConfig", "lxd.NewConfig", "cloudstack.NewConfig",
     "virtualbox-ovf.NewConfig"}

\* The errors the steps of the resolution returned, in the order of the steps.
RECURSIVE StepErrors(_)
StepErrors(steps) ==
    IF steps = <<>> THEN <<>> ELSE Head(steps).errs \o StepErrors(Tail(steps))

\* C1: NewConfig of lxc, lxd, cloudstack and virtualbox-ovf returns a non-nil
\* configuration exactly when it returns a nil error, and it returns a nil
\* error exactly when config.Decode succeeded and no step of the resolution
\* returned an error.
C1_ConfigIffNoError ==
    op \in NewConfigOps =>
        /\ IsSet(ret.c) <=> IsNil(ret.err)
        /\ IsNil(ret.err) <=> (IsNil(arg.decodeErr) /\ StepErrors(ret.steps) = <<>>)

\* virtualbox-ovf NewConfig has run all its steps, none returned an error (the
\* aggregate is non-nil and empty), and the configuration is returned.
C1_Witness ==
    /\ op = "virtualbox-ovf.NewConfig"
    /\ IsNil(arg.decodeErr)
    /\ Len(ret.steps) > Len(OvfPrepareOrder)
    /\ StepErrors(ret.steps) = <<>>
    /\ IsSet(ret.c)
    /\ IsNil(ret.err)

StepsNamed(name) == {i \in 1..Len(ret.steps) : ret.steps[i].step = name}

InAggregate(e) ==
    /\ IsSet(ret.err)
    /\ \E k \in 1..Len(Deref(ret.err).Errors) : Deref(ret.err).Errors[k] = e

\* The step of that name ran once, returned the errors es, and each of them
\* is in the returned aggregate.
RanAndKept(name, es) ==
    /\ Cardinality(StepsNamed(name)) = 1
    /\ \A i \in StepsNamed(name) :
        /\ ret.steps[i].errs = es
        /\ \A k \in 1..Len(es) : InAggregate(es[k])

\* C2: in virtualbox-ovf NewConfig, once config.Decode has succeeded, each of
\* the thirteen Prepare calls and each of the two rules of the backend
\* (source_path required, guest_additions_mode one of the valid modes) runs,
\* whatever the earlier steps returned, and the returned aggregate holds every
\* error each of them returned.
C2_OvfRunsEveryStep ==
    (op = "virtualbox-ovf.NewConfig" /\ IsNil(arg.decodeErr)) =>
        /\ \A n \in 1..Len(OvfPrepareOrder) :
            RanAndKept(OvfPrepareOrder[n], arg.env[OvfPrepareOrder[n]])
        /\ RanAndKept("source_path",
                      IF arg.c.SourcePath = ""
                      THEN <<"source_path is required">> ELSE <<>>)
        /\ RanAndKept("guest_additions_mode",
                      IF arg.c.GuestAdditionsMode \in {"", "disable", "attach", "upload"}
                      THEN <<>>
                      ELSE <<"guest_additions_mode is invalid. Must be one of: [disable attach upload]">>)

\* The first Prepare returned two errors, the last one an error, and the
\* guest_additions_mode rule is violated: all of them are in the aggregate.
C2_Witness ==
    /\ op = "virtualbox-ovf.NewConfig"
    /\ IsNil(arg.decodeErr)
    /\ Len(arg.env.ExportConfig) = 2
    /\ Len(arg.env.GuestAdditionsConfig) > 0
    /\ arg.c.GuestAdditionsMode = "none"
    /\ IsSet(ret.err)
    /\ Len(Deref(ret.err).Errors) = Len(StepErrors(ret.steps))
    /\ Len(Deref(ret.err).Errors) >= 4

\* C11: when virtualbox-ovf NewConfig has succeeded, NewConfig on the
\* configuration it returned succeeds too, with no error, and returns that
\* same configuration, field for field (import_flags included).
C11_OvfIdempotent ==
    op = "virtualbox-ovf.NewConfig.again" =>
        /\ IsNil(ret.err)
        /\ IsSet(ret.c)
        /\ Deref(ret.c) = arg.c

\* C26: virtualbox-ovf NewConfig calls the Prepare entry points of its
\* sub-configurations in the order in which Config embeds them, so their errors
\* stand in the aggregate in that order.
C26_OvfPrepareInEmbedOrder ==
    (op = "virtualbox-ovf.NewConfig" /\ IsNil(arg.decodeErr)) =>
        /\ Len(ret.steps) >= Len(OvfEmbedOrder)
        /\ \A i \in 1..Len(OvfEmbedOrder) : ret.steps[i].step = OvfEmbedOrder[i]

----------------------------------------------------------------------------
(* Claims about the Prepare of the sub-configurations *)

\* C14: after ExportConfig.Prepare has returned no error, format is one of
\* "ova", "ovf", "vmx" (an omitted format having become "ovf"); any other
\* value yields the error "format must be one of ova, ovf, or vmx".
C14_ExportFormatResolved ==
    op = "ExportConfig.Prepare" =>
        /\ ret.errs = <<>> => ret.c.Format \in {"ova", "ovf", "vmx"}
        /\ arg.c.Format = "" => ret.c.Format = "ovf"
        /\ arg.c.Format \notin {"", "ova", "ovf", "vmx"} =>
                ret.errs = <<"format must be one of ova, ovf, or vmx">>

\* C20: SourceMachineConfig.Prepare reports the error naming both
\* source_machine_image and the filter exactly once when source_machine_image
\* is non-empty and source_machine_image_filter is non-empty (one of name,
\* os, version, state, owner, type is set), and not at all otherwise.
C20_ImageOrFilter ==
    op = "SourceMachineConfig.Prepare" =>
        LET both == /\ arg.c.MachineImage # ""
                    /\ \E f \in {"Name", "OS", "Version", "State", "Owner", "Type"} :
                            arg.c.MachineImageFilters[f] # ""
            n == Cardinality({i \in 1..Len(ret.errs) :
                    ret.errs[i] = "You cannot specify a Machine Image and also Machine Name filter"})
        IN  n = IF both THEN 1 ELSE 0

\* The index of the first occurrence of x in the list.
FirstIndex(list, x) == CHOOSE i \in 1..Len(list) : list[i] = x /\ \A k \in 1..(i - 1) : list[k] # x

NoDuplicate(list) == \A i, j \in 1..Len(list) : i # j => list[i] # list[j]

\* C28: after AlicloudImageConfig.Prepare, with or without name errors,
\* image_copy_regions has no duplicate, holds exactly the regions that were
\* given, in the order of their first occurrence; a list without duplicate is
\* unchanged; image_copy_names is unchanged.
C28_CopyRegionsDeduped ==
    op = "AlicloudImageConfig.Prepare" =>
        LET given == arg.c.AlicloudImageDestinationRegions
            kept  == ret.c.AlicloudImageDestinationRegions
        IN  /\ NoDuplicate(kept)
            /\ {kept[i] : i \in 1..Len(kept)} = {given[i] : i \in 1..Len(given)}
            /\ \A i, j \in 1..Len(kept) :
                    i < j => FirstIndex(given, kept[i]) < FirstIndex(given, kept[j])
            /\ NoDuplicate(given) => kept = given
            /\ ret.c.AlicloudImageDestinationNames = arg.c.AlicloudImageDestinationNames

\* Prepare has returned a name error and has removed the second occurrence of
\* a region: three names are left for two regions.
C28_Witness ==
    /\ op = "AlicloudImageConfig.Prepare"
    /\ Len(ret.errs) > 0
    /\ arg.c.AlicloudImageDestinationRegions = <<"cn-hangzhou", "cn-beijing", "cn-hangzhou">>
    /\ ret.c.AlicloudImageDestinationRegions = <<"cn-hangzhou", "cn-beijing">>
    /\ Len(ret.c.AlicloudImageDestinationNames) = 3

----------------------------------------------------------------------------
(* Claims about every resolution *)

AgainOps ==
    {"BlockDevices.Prepare.again", "RunConfig.Prepare.again",
     "cloudstack.NewConfig.again"}

\* The error messages of a result, in their order.
ErrorsOf(r) ==
    IF "errs" \in DOMAIN r THEN r.errs
    ELSE IF IsNil(r.err) THEN <<>> ELSE Deref(r.err).Errors

ShutdownBehaviorMsg == "shutdown_behavior only accepts 'stop' or 'terminate' values."

GuestAdditionsModeMsg ==
    "guest_additions_mode is invalid. Must be one of: [disable attach upload]"

ReportsMsg(msg) == \E i \in 1..Len(ret.errs) : ret.errs[i].msg = msg

\* C13: RunConfig.Prepare turns an empty shutdown_behavior into "stop" and
\* reports an error exactly when a non-empty value is neither "stop" nor
\* "terminate"; virtualbox-ovf NewConfig turns an empty guest_additions_mode
\* into "upload" and reports an error exactly when the value is none of
\* disable, attach, upload.  Without such an error the resolved field is in
\* its allowed set.
C13_ModeDefaultAndAllowed ==
    /\ op = "RunConfig.Prepare" =>
        LET given    == arg.c.InstanceInitiatedShutdownBehavior
            resolved == ret.c.InstanceInitiatedShutdownBehavior
        IN  /\ given = "" => resolved = "stop"
            /\ ReportsMsg(ShutdownBehaviorMsg)
                    <=> (given # "" /\ given \notin {"stop", "terminate"})
            /\ ~ReportsMsg(ShutdownBehaviorMsg) => resolved \in {"stop", "terminate"}
    /\ (op = "virtualbox-ovf.NewConfig" /\ IsNil(arg.decodeErr)) =>
        LET given == arg.c.GuestAdditionsMode
        IN  /\ InAggregate(GuestAdditionsModeMsg)
                    <=> given \notin {"", "disable", "attach", "upload"}
            /\ IsSet(ret.c) =>
                /\ Deref(ret.c).GuestAdditionsMode \in {"disable", "attach", "upload"}
                /\ given = "" => Deref(ret.c).GuestAdditionsMode = "upload"
                /\ given # "" => Deref(ret.c).GuestAdditionsMode = given

\* RunConfig.Prepare has made "stop" of an omitted shutdown_behavior.
C13_Witness ==
    /\ op = "RunConfig.Prepare"
    /\ arg.c.InstanceInitiatedShutdownBehavior = ""
    /\ ret.c.InstanceInitiatedShutdownBehavior = "stop"
    /\ ~ReportsMsg(ShutdownBehaviorMsg)

----------------------------------------------------------------------------
(* Claims about cloudstack NewConfig *)

CloudstackDecoded == op = "cloudstack.NewConfig" /\ IsNil(arg.decodeErr)

\* C16: cloudstack NewConfig reports a missing disk_offering exactly when
\* source_iso is non-empty and disk_offering is empty, and a missing
\* hypervisor exactly when source_iso is non-empty and hypervisor is empty;
\* with source_template only, neither is ever reported.
C16_RequiredWithSourceISO ==
    CloudstackDecoded =>
        /\ InAggregate("a disk_offering must be specified when using source_iso")
                <=> (arg.c.SourceISO # "" /\ arg.c.DiskOffering = "")
        /\ InAggregate("a hypervisor must be specified when using source_iso")
                <=> (arg.c.SourceISO # "" /\ arg.c.Hypervisor = "")

\* An instance provisioned from source_template only, with neither
\* disk_offering nor hypervisor: the configuration is returned.
C16_Witness ==
    /\ CloudstackDecoded
    /\ arg.c.SourceISO = ""
    /\ arg.c.SourceTemplate # ""
    /\ arg.c.DiskOffering = ""
    /\ arg.c.Hypervisor = ""
    /\ IsSet(ret.c)

\* The value of the field after the resolution: what was given when that is
\* non-empty, the environment variable otherwise; and the error of the field
\* is reported exactly when both are empty.
GivenOrEnv(field, envField, msg) ==
    LET wanted == IF arg.c[field] # "" THEN arg.c[field] ELSE arg.env[envField]
    IN  /\ IsSet(ret.c) => Deref(ret.c)[field] = wanted
        /\ InAggregate(msg) <=> (arg.c[field] = "" /\ arg.env[envField] = "")

\* C17: api_url, api_key and secret_key of cloudstack NewConfig resolve to the
\* given value when it is non-empty and to CLOUDSTACK_API_URL,
\* CLOUDSTACK_API_KEY, CLOUDSTACK_SECRET_KEY otherwise; the "must be
\* specified" error of a field is reported exactly when both are empty.
C17_EnvFallback ==
    CloudstackDecoded =>
        /\ GivenOrEnv("APIURL", "EnvAPIURL", "a api_url must be specified")
        /\ GivenOrEnv("APIKey", "EnvAPIKey", "a api_key must be specified")
        /\ GivenOrEnv("SecretKey", "EnvSecretKey", "a secret_key must be specified")

\* api_key is given and CLOUDSTACK_API_KEY is set to something else: the given
\* one is kept; secret_key is not given and is taken from the environment.
C17_Witness ==
    /\ CloudstackDecoded
    /\ arg.c.APIKey = "given-key"
    /\ arg.env.EnvAPIKey = "env-key"
    /\ arg.c.SecretKey = ""
    /\ arg.env.EnvSecretKey = "env-secret"
    /\ IsSet(ret.c)
    /\ Deref(ret.c).APIKey = "given-key"
    /\ Deref(ret.c).SecretKey = "env-secret"

\* os.Stat of the path fails: the path is empty, or the file system says so.
CannotStat(path, outcome) == path = "" \/ outcome # "ok"

\* C18: when the path of lxc config_file, of virtualbox-ovf source_path, or of
\* a non-empty user_data_file (RunConfig, cloudstack) cannot be stat-ed, the
\* resolution returns an error, and NewConfig returns no configuration.
C18_MissingFileReported ==
    /\ (op = "lxc.NewConfig" /\ IsNil(arg.decodeErr)
            /\ CannotStat(arg.c.ConfigFile, arg.stat))
        => (IsSet(ret.err) /\ IsNil(ret.c))
    /\ (op = "virtualbox-ovf.NewConfig" /\ IsNil(arg.decodeErr)
            /\ CannotStat(arg.c.SourcePath, arg.env.StatSourcePath))
        => (IsSet(ret.err) /\ IsNil(ret.c))
    /\ (op = "cloudstack.NewConfig" /\ IsNil(arg.decodeErr)
            /\ arg.c.UserDataFile # ""
            /\ CannotStat(arg.c.UserDataFile, arg.env.StatUserDataFile))
        => (IsSet(ret.err) /\ IsNil(ret.c))
    /\ (op = "RunConfig.Prepare"
            /\ arg.c.UserDataFile # ""
            /\ CannotStat(arg.c.UserDataFile, arg.env.StatUserDataFile))
        => Len(ret.errs) > 0

\* The collection is non-nil after the resolution: the given one when one
\* was given, an empty one otherwise.
MadeOrKept(given, resolved, empty) ==
    /\ IsSet(resolved)
    /\ IsSet(given) => resolved = given
    /\ IsNil(given) => Deref(resolved) = empty

\* C21: after SourceMachineConfig.Prepare, with or without errors,
\* source_machine_networks, source_machine_metadata and source_machine_tags
\* are non-nil, an omitted one being empty and a given one unchanged; after
\* RunConfig.Prepare run_tags is non-nil.
C21_CollectionsNonNil ==
    /\ op = "SourceMachineConfig.Prepare" =>
        /\ MadeOrKept(arg.c.MachineNetworks, ret.c.MachineNetworks, <<>>)
        /\ MadeOrKept(arg.c.MachineMetadata, ret.c.MachineMetadata, <<>>)
        /\ MadeOrKept(arg.c.MachineTags, ret.c.MachineTags, <<>>)
    /\ op = "RunConfig.Prepare" =>
        MadeOrKept(arg.c.RunTags, ret.c.RunTags, {})

\* SourceMachineConfig.Prepare has returned an error and has made the three
\* omitted collections.
C21_Witness ==
    /\ op = "SourceMachineConfig.Prepare"
    /\ Len(ret.errs) > 0
    /\ IsNil(arg.c.MachineNetworks)
    /\ IsNil(arg.c.MachineMetadata)
    /\ IsNil(arg.c.MachineTags)
    /\ ret.c.MachineNetworks = Ptr(<<>>)
    /\ ret.c.MachineMetadata = Ptr(<<>>)
    /\ ret.c.MachineTags = Ptr(<<>>)

----------------------------------------------------------------------------
(* Claims about lxc and lxd NewConfig *)

LxcDecoded == op = "lxc.NewConfig" /\ IsNil(arg.decodeErr)

\* C22: lxc NewConfig returns an error whenever config_file is empty and
\* whenever template_name is empty.
C22_LxcRequiredFields ==
    (LxcDecoded /\ (arg.c.ConfigFile = "" \/ arg.c.Name = "")) =>
        (IsSet(ret.err) /\ IsNil(ret.c))

\* Values of init_timeout that are no duration: no unit, an unknown unit, no
\* number, a sign alone, a number without unit after a group.
UnparsableDurations ==
    {<<"9", "0">>, <<"5", "x">>, <<"m">>, <<"-">>, <<"5", "m", "3">>}

\* The errors the step of that name returned.
ErrorsOfStep(name) ==
    IF \E i \in StepsNamed(name) : TRUE
    THEN ret.steps[CHOOSE i \in StepsNamed(name) : TRUE].errs
    ELSE <<>>

\* C23: in lxc NewConfig an unparsable init_timeout adds one error to the
\* aggregate and the test of the config file still runs; the aggregate is the
\* parse error (if any) followed by the config file error (if any).
C23_LxcParseErrorDeferred ==
    LxcDecoded =>
        /\ Cardinality(StepsNamed("init_timeout")) = 1
        /\ Cardinality(StepsNamed("config_file")) = 1
        /\ Len(ErrorsOfStep("init_timeout"))
                = IF arg.c.RawInitTimeout \in UnparsableDurations THEN 1 ELSE 0
        /\ Len(ErrorsOfStep("config_file"))
                = IF arg.c.ConfigFile = "" \/ arg.stat = "ENOENT" THEN 1 ELSE 0
        /\ ErrorsOf(ret) = ErrorsOfStep("init_timeout") \o ErrorsOfStep("config_file")

\* init_timeout is unparsable and the config file is missing: the aggregate
\* holds the two errors, the one of init_timeout first.
C23_Witness ==
    /\ LxcDecoded
    /\ arg.c.RawInitTimeout = <<"5", "x">>
    /\ arg.c.ConfigFile = "lxc.conf"
    /\ arg.stat = "ENOENT"
    /\ IsSet(ret.err)
    /\ Len(Deref(ret.err).Errors) = 2
    /\ Deref(ret.err).Errors[2] = "LXC Config file appears to be missing: lxc.conf"
    /\ Deref(ret.err).Errors[1] # Deref(ret.err).Errors[2]

\* C25: lxd NewConfig resolves an omitted container_name to
\* "packer-<build name>" and an omitted output_image to the resolved
\* container_name (so to "packer-<build name>" when both are omitted); a given
\* output_image or container_name is kept.
C25_LxdDefaultsInOrder ==
    (op = "lxd.NewConfig" /\ IsSet(ret.c)) =>
        LET containerName == IF arg.c.ContainerName # "" THEN arg.c.ContainerName
                             ELSE "packer-" \o arg.c.PackerBuildName
            outputImage   == IF arg.c.OutputImage # "" THEN arg.c.OutputImage
                             ELSE containerName
        IN  /\ Deref(ret.c).ContainerName = containerName
            /\ Deref(ret.c).OutputImage = outputImage

\* container_name and output_image are both omitted: output_image is the
\* name made for the container.
C25_Witness ==
    /\ op = "lxd.NewConfig"
    /\ IsSet(ret.c)
    /\ arg.c.ContainerName = ""
    /\ arg.c.OutputImage = ""
    /\ arg.c.PackerBuildName = "ubuntu"
    /\ Deref(ret.c).ContainerName = "packer-ubuntu"
    /\ Deref(ret.c).OutputImage = "packer-ubuntu"

----------------------------------------------------------------------------
(* Claims about the block devices *)

\* The number of device kinds set on a mapping.
KindCount(m) ==
    (IF IsSet(m.NoDevice) THEN 1 ELSE 0)
        + (IF IsSet(m.VirtualName) THEN 1 ELSE 0)
        + (IF IsSet(m.Ebs) THEN 1 ELSE 0)

\* C3: every mapping emitted by buildBlockDevices has exactly one of NoDevice,
\* VirtualName and Ebs set, never none and never two.
C3_ExactlyOneKind ==
    op = "buildBlockDevices" =>
        \A i \in 1..Len(ret.mappings) : KindCount(ret.mappings[i]) = 1

\* C4: a device with no_device true, whatever its other fields, is emitted
\* under its device name with NoDevice set and with neither an Ebs part nor a
\* VirtualName part.
C4_SuppressedOnlyNoDevice ==
    op = "buildBlockDevices" =>
        /\ Len(ret.mappings) = Len(arg.b)
        /\ \A i \in 1..Len(arg.b) :
            arg.b[i].NoDevice =>
                /\ ret.mappings[i].DeviceName = Ptr(arg.b[i].DeviceName)
                /\ IsSet(ret.mappings[i].NoDevice)
                /\ IsNil(ret.mappings[i].Ebs)
                /\ IsNil(ret.mappings[i].VirtualName)

\* C4 witness: a suppressed device that also names an ephemeral disk, a
\* snapshot and a key has been mapped.
C4_Witness ==
    /\ op = "buildBlockDevices"
    /\ \E i \in 1..Len(arg.b) :
        /\ arg.b[i].NoDevice
        /\ arg.b[i].VirtualName = "ephemeral0"
        /\ arg.b[i].SnapshotId # ""
        /\ arg.b[i].KmsKeyId # ""
        /\ arg.b[i].VolumeSize > 0
        /\ IsSet(ret.mappings[i].NoDevice)

AllMappings(b) == b.AMIMappings \o b.LaunchMappings

\* The two rules of BlockDevice.Prepare, as the documentation states them.
MissingName(d) == d.DeviceName = ""

KmsWithoutEncryption(d) == d.KmsKeyId # "" /\ d.Encrypted = Ptr(FALSE)

KmsMessages ==
    {prefix \o "The device " \o n \o
        ", must also have encrypted: true when setting a kms_key_id." :
            prefix \in {"AMIMapping: ", "LaunchMapping: "},
            n \in {d.DeviceName : d \in BlockDeviceDomain}}

CountIn(seq, S) == Cardinality({i \in 1..Len(seq) : seq[i] \in S})

\* C6: whenever some device of the AMI or launch list has a kms_key_id and
\* encrypted explicitly false, BlockDevices.Prepare returns at least one
\* error; the kms error is reported only for such devices, not for a device
\* whose encrypted is unset or true.
C6_KmsNeedsEncryption ==
    op = "BlockDevices.Prepare" =>
        LET ds == AllMappings(arg.b)
            bad == {i \in 1..Len(ds) : KmsWithoutEncryption(ds[i])}
        IN  /\ bad # {} => Len(ret.errs) >= 1
            /\ CountIn(ret.errs, KmsMessages) <= Cardinality(bad)

\* C6 witness: a list with a keyed device that has encrypted false and a
\* keyed device that has encrypted unset was prepared, with an error.
C6_Witness ==
    /\ op = "BlockDevices.Prepare"
    /\ LET ds == AllMappings(arg.b)
       IN  /\ \E i \in 1..Len(ds) : KmsWithoutEncryption(ds[i]) /\ ~MissingName(ds[i])
           /\ \E i \in 1..Len(ds) : ds[i].KmsKeyId # "" /\ ds[i].Encrypted = Nil
    /\ Len(ret.errs) = 1

\* The number of violated rules over a device list.
RECURSIVE Violations(_, _)
Violations(ds, i) ==
    IF i > Len(ds) THEN 0
    ELSE (IF MissingName(ds[i]) THEN 1 ELSE 0)
            + (IF KmsWithoutEncryption(ds[i]) THEN 1 ELSE 0)
            + Violations(ds, i + 1)

\* C7: BlockDevices.Prepare returns as many errors as there are violated
\* rules over all devices of both lists (a device violating both yields two).
C7_OneErrorPerViolation ==
    op = "BlockDevices.Prepare" =>
        Len(ret.errs) = Violations(AllMappings(arg.b), 1)

----------------------------------------------------------------------------
(* Claims about RunConfig.Prepare *)

\* The number of errors of a returned list whose message is msg.
CountMsg(errs, msg) == Cardinality({i \in 1..Len(errs) : errs[i].msg = msg})

MultipleOf60(n) == \E k \in -10..10 : n = 60 * k

\* C8: RunConfig.Prepare yields exactly one "block_duration_minutes must be
\* multiple of 60" error when block_duration_minutes is not a multiple of 60
\* (90, and negative non-multiples too), and none when it is (120, and 0
\* when omitted).
C8_BlockDurationMultipleOf60 ==
    op = "RunConfig.Prepare" =>
        CountMsg(ret.errs, "block_duration_minutes must be multiple of 60")
            = IF MultipleOf60(arg.c.BlockDurationMinutes) THEN 0 ELSE 1

\* C8 witness: Prepare has reported a negative duration that is no multiple
\* of 60.
C8_Witness ==
    /\ op = "RunConfig.Prepare"
    /\ arg.c.BlockDurationMinutes = -90
    /\ CountMsg(ret.errs, "block_duration_minutes must be multiple of 60") = 1

SourceAmiGiven(c) == c.SourceAmi # ""

SourceAmiFilterGiven(c) ==
    c.SourceAmiFilterOwners # <<>> \/ c.SourceAmiFilterFilters # {}

SourceAmiRequired == "A source_ami or source_ami_filter must be specified"

SourceAmiOwner == "For security reasons, your source AMI filter must declare an owner."

\* An error of the source_ami rules that says the two are mutually exclusive:
\* one that is neither the both-missing error nor the owner-missing error.
ReportsExclusiveSourceAmi(errs) ==
    \E i \in 1..Len(errs) :
        /\ errs[i].rule = "source_ami"
        /\ errs[i].msg \notin {SourceAmiRequired, SourceAmiOwner}

\* C9: with source_ami and source_ami_filter both empty RunConfig.Prepare
\* reports "must be specified"; with both non-empty it reports a "mutually
\* exclusive" error; with exactly one non-empty it reports neither.
C9_SourceAmiOrFilter ==
    op = "RunConfig.Prepare" =>
        LET a == SourceAmiGiven(arg.c)
            f == SourceAmiFilterGiven(arg.c)
        IN  /\ (~a /\ ~f) => CountMsg(ret.errs, SourceAmiRequired) >= 1
            /\ (a /\ f) => ReportsExclusiveSourceAmi(ret.errs)
            /\ (a # f) => /\ CountMsg(ret.errs, SourceAmiRequired) = 0
                          /\ ~ReportsExclusiveSourceAmi(ret.errs)

T2Messages(it) ==
    {"Error: T2 Unlimited cannot be used in conjuction with Spot Instances",
     "Error determining main Instance Type from: " \o Cat(it),
     "Error: T2 Unlimited enabled with a non-T2 Instance Type: " \o Cat(it)}

\* The instance type has a "." and the text before its first "." is "t2".
FamilyIsT2(it) ==
    /\ Len(it) >= 3
    /\ it[1] = "t"
    /\ it[2] = "2"
    /\ it[3] = "."

\* C15: with enable_t2_unlimited, RunConfig.Prepare reports a T2 error
\* exactly when spot_price is non-empty or the family of instance_type (the
\* text before its first ".") is not "t2", an instance_type without "."
\* counting as not t2; without enable_t2_unlimited it reports none.
C15_T2Unlimited ==
    op = "RunConfig.Prepare" =>
        LET reported == \E i \in 1..Len(ret.errs) :
                            ret.errs[i].msg \in T2Messages(arg.c.InstanceType)
        IN  reported <=> /\ arg.c.EnableT2Unlimited
                         /\ \/ arg.c.SpotPrice # ""
                            \/ ~FamilyIsT2(arg.c.InstanceType)

\* enable_t2_unlimited with an instance type that starts with "t2" but is of
\* another family: the error is reported.
C15_Witness ==
    /\ op = "RunConfig.Prepare"
    /\ arg.c.EnableT2Unlimited
    /\ arg.c.SpotPrice = ""
    /\ arg.c.InstanceType = T2xDotted
    /\ \E i \in 1..Len(ret.errs) :
            ret.errs[i].msg = "Error: T2 Unlimited enabled with a non-T2 Instance Type: "
                                \o Cat(T2xDotted)

\* C19: within one resolution no rule is evaluated before every default of
\* that resolution has been applied: in the statements RunConfig.Prepare has
\* run, no assignment of a default comes after the evaluation of a rule.
C19_DefaultsBeforeRules ==
    op = "RunConfig.Prepare" =>
        \A i, j \in 1..Len(ret.phases) :
            i < j => ~(ret.phases[i].kind = "validate" /\ ret.phases[j].kind = "default")

\* How many times RunConfig.Prepare has reported the message.
TimesReported(msg) == Cardinality({i \in 1..Len(ret.errs) : ret.errs[i].msg = msg})

\* C24: RunConfig.Prepare reports one error when instance_type and
\* spot_instance_types are both empty, another one when both are non-empty,
\* neither when exactly one is non-empty, and never the two together.
C24_InstanceTypeOrSpotTypes ==
    op = "RunConfig.Prepare" =>
        LET noType  == arg.c.InstanceType = <<>>
            noTypes == arg.c.SpotInstanceTypes = <<>>
            none == TimesReported("either instance_type or spot_instance_types must be specified")
            both == TimesReported("either instance_type or spot_instance_types must be specified, not both")
        IN  /\ none = IF noType /\ noTypes THEN 1 ELSE 0
            /\ both = IF ~noType /\ ~noTypes THEN 1 ELSE 0
            /\ none + both <= 1

\* instance_type and spot_instance_types are both given: the "not both" error
\* is reported.
C24_Witness ==
    /\ op = "RunConfig.Prepare"
    /\ arg.c.InstanceType # <<>>
    /\ arg.c.SpotInstanceTypes # <<>>
    /\ TimesReported("either instance_type or spot_instance_types must be specified, not both") = 1

\* C27: after RunConfig.Prepare, a security_group_id given without
\* security_group_ids has become the one-element security_group_ids and is
\* empty itself, with no error; both given are left unchanged with exactly
\* one exclusivity error; without security_group_id, security_group_ids is
\* unchanged.
C27_SecurityGroupFields ==
    op = "RunConfig.Prepare" =>
        LET id    == arg.c.SecurityGroupId
            ids   == arg.c.SecurityGroupIds
            n     == TimesReported("Only one of security_group_id or security_group_ids can be specified.")
        IN  /\ (id # "" /\ ids = <<>>) =>
                    /\ ret.c.SecurityGroupIds = <<id>>
                    /\ ret.c.SecurityGroupId = ""
                    /\ n = 0
            /\ (id # "" /\ ids # <<>>) =>
                    /\ ret.c.SecurityGroupIds = ids
                    /\ ret.c.SecurityGroupId = id
                    /\ n = 1
            /\ id = "" =>
                    /\ ret.c.SecurityGroupIds = ids
                    /\ ret.c.SecurityGroupId = ""
                    /\ n = 0
            /\ (ret.c.SecurityGroupId # "" /\ ret.c.SecurityGroupIds # <<>>) => n = 1

\* security_group_id alone was given: it has been moved into
\* security_group_ids.
C27_Witness ==
    /\ op = "RunConfig.Prepare"
    /\ arg.c.SecurityGroupId = "sg-1"
    /\ arg.c.SecurityGroupIds = <<>>
    /\ ret.c.SecurityGroupIds = <<"sg-1">>
    /\ ret.c.SecurityGroupId = ""

----------------------------------------------------------------------------
(* Claims about the durations *)

\* C10: an omitted raw duration is stored as the documented default literal,
\* parses without error and resolves to the documented default exactly:
\* ShutdownConfig.Prepare resolves an omitted shutdown_timeout to 5 minutes
\* and lxc NewConfig an omitted init_timeout to 20 seconds; a raw value that
\* was given is never replaced.
C10_OmittedDurationDefault ==
    /\ op = "ShutdownConfig.Prepare" =>
        /\ arg.c.RawShutdownTimeout = <<>> =>
            /\ ret.c.RawShutdownTimeout = <<"5", "m">>
            /\ ret.errs = <<>>
            /\ ret.c.ShutdownTimeout = [neg |-> FALSE, s |-> 300, ns |-> 0]
        /\ arg.c.RawShutdownTimeout # <<>> =>
            ret.c.RawShutdownTimeout = arg.c.RawShutdownTimeout
    /\ (op = "lxc.NewConfig" /\ ret.decoded) =>
        /\ arg.c.RawInitTimeout = <<>> =>
            /\ \A i \in 1..Len(ret.steps) :
                ret.steps[i].step = "init_timeout" => ret.steps[i].errs = <<>>
            /\ IsSet(ret.c) =>
                /\ Deref(ret.c).RawInitTimeout = <<"2", "0", "s">>
                /\ Deref(ret.c).InitTimeout = [neg |-> FALSE, s |-> 20, ns |-> 0]
        /\ (arg.c.RawInitTimeout # <<>> /\ IsSet(ret.c)) =>
            Deref(ret.c).RawInitTimeout = arg.c.RawInitTimeout

\* C10 witness: ShutdownConfig.Prepare has resolved an omitted
\* shutdown_timeout.
C10_Witness ==
    /\ op = "ShutdownConfig.Prepare"
    /\ arg.c.RawShutdownTimeout = <<>>
    /\ ret.c.ShutdownTimeout = [neg |-> FALSE, s |-> 300, ns |-> 0]
    /\ ret.errs = <<>>

====
